---- MODULE Spec2Model ----
(***************************************************************************)
(* Checkers engine of ethanwaldo/checkers: pieces.py (Piece, Man, King)    *)
(* and engine.py (Player, Move, Game).                                     *)
(*                                                                         *)
(* Python values are modelled as follows.                                  *)
(*   - a coordinate (row, col) is the tuple <<row, col>>, so Python's      *)
(*     coords[0], coords[1] are coords[1], coords[2] here;                 *)
(*   - a piece object is a record with the attributes set by               *)
(*     Piece.__init__; the class (Man / King) is read off its name;        *)
(*   - a list is a sequence, a dict is a function, None is the value None; *)
(*   - a Game object is a record with one field per attribute; the         *)
(*     variables of the module are the attributes of the one Game the      *)
(*     front-end holds;                                                    *)
(*   - time.time() differences: both readings are binary64 values of the   *)
(*     same binade, so every elapsed time is an exact integer multiple of  *)
(*     one ulp of the clock reading and the sums and differences the       *)
(*     engine forms are exact; a duration is modelled as that integer      *)
(*     number of clock ticks.                                              *)
(***************************************************************************)
EXTENDS Integers, Sequences, FiniteSets, TLC

(***************************************************************************)
(* Generic helpers for Python list / str operations.                       *)
(***************************************************************************)
RECURSIVE ConcatRange(_, _, _)
\* lists[lo] + ... + lists[hi], split in halves to keep the evaluation shallow
ConcatRange(lists, lo, hi) ==
    IF lo > hi THEN <<>>
    ELSE IF lo = hi THEN lists[lo]
    ELSE LET mid == (lo + hi) \div 2
         IN  ConcatRange(lists, lo, mid) \o ConcatRange(lists, mid + 1, hi)

\* concatenation of a sequence of lists (the effect of a loop of appends)
Concat(lists) == ConcatRange(lists, 1, Len(lists))

RECURSIVE JoinRange(_, _, _)
\* parts[lo] + ... + parts[hi] for strings
JoinRange(parts, lo, hi) ==
    IF lo > hi THEN ""
    ELSE IF lo = hi THEN parts[lo]
    ELSE LET mid == (lo + hi) \div 2
         IN  JoinRange(parts, lo, mid) \o JoinRange(parts, mid + 1, hi)

\* "".join(parts)
join(parts) == JoinRange(parts, 1, Len(parts))

\* abs(x)
abs(x) == IF x < 0 THEN -x ELSE x

\* the elements of a list, as a set
Elems(list) == {list[i] : i \in DOMAIN list}

\* list[:-1], the list after list.pop()
pop(list) == SubSeq(list, 1, Len(list) - 1)

\* list[-1]
last(list) == list[Len(list)]

\* d.get(key, 0)
get(d, key) == IF key \in DOMAIN d THEN d[key] ELSE 0

\* sum(d.values()) for a dict of counts
sum_values(d) ==
    Cardinality(UNION {{<<k, i>> : i \in 1..d[k]} : k \in DOMAIN d})

(***************************************************************************)
(* config.py, pieces.py                                                    *)
(***************************************************************************)
BOARD_DIMENSION == 8

None == [none |-> TRUE]

\* Piece.__init__: name, is_player1, color
Piece(name, is_player1) ==
    [name |-> name, is_player1 |-> is_player1,
     color |-> IF is_player1 THEN "red" ELSE "black"]

Man(is_player1) == Piece("M", is_player1)

King(is_player1) == Piece("K", is_player1)

\* isinstance(piece, Man), isinstance(piece, King)
isinstance_Man(piece) == piece # None /\ piece.name = "M"

isinstance_King(piece) == piece # None /\ piece.name = "K"

\* Piece.is_enemy
is_enemy(self, other_piece) ==
    other_piece # None /\ other_piece.is_player1 # self.is_player1

\* 0 <= x < BOARD_DIMENSION
in_range(x) == 0 <= x /\ x < BOARD_DIMENSION

\* one iteration of the loop of Piece._get_diagonal_moves: the moves that
\* direction <<dr, dc>> contributes
diagonal_step(self, board, start_coords, direction) ==
    LET row == start_coords[1]
        col == start_coords[2]
        dr == direction[1]
        dc == direction[2]
        new_row == row + dr
        new_col == col + dc
        jump_row == new_row + dr
        jump_col == new_col + dc
    IN  IF in_range(new_row) /\ in_range(new_col)
        THEN LET target == board[new_row][new_col] IN
             IF target = None THEN << <<new_row, new_col>> >>
             ELSE IF is_enemy(self, target)
                  THEN IF /\ in_range(jump_row) /\ in_range(jump_col)
                          /\ board[jump_row][jump_col] = None
                       THEN << <<jump_row, jump_col>> >>
                       ELSE <<>>
                  ELSE <<>>
        ELSE <<>>

\* Piece._get_diagonal_moves
_get_diagonal_moves(self, board, start_coords, directions) ==
    Concat([i \in 1..Len(directions) |->
                diagonal_step(self, board, start_coords, directions[i])])

\* Man.get_moves with the directions of a King
Man_directions_both_ways(self) ==
    << <<1, 1>>, <<1, -1>>, <<-1, 1>>, <<-1, -1>> >>

\* Man.get_moves: the directions of a Man
Man_directions(self) ==
    IF self.is_player1 THEN << <<-1, -1>>, <<-1, 1>> >>
    ELSE << <<1, -1>>, <<1, 1>> >>

\* King.get_moves with the steps along the column among the directions
King_directions_with_column ==
    << <<1, 1>>, <<1, -1>>, <<-1, 1>>, <<-1, -1>>, <<-1, 0>>, <<1, 0>> >>

\* King.get_moves: the directions of a King
King_directions == << <<1, 1>>, <<1, -1>>, <<-1, 1>>, <<-1, -1>> >>

\* piece.get_moves(board, start_coords, move_history), dispatched on the class
get_moves(self, board, start_coords, move_history) ==
    IF isinstance_Man(self)
    THEN _get_diagonal_moves(self, board, start_coords, Man_directions(self))
    ELSE _get_diagonal_moves(self, board, start_coords, King_directions)

(***************************************************************************)
(* engine.py: Player, Move                                                 *)
(***************************************************************************)
Player(name, is_player1) ==
    [name |-> name, is_player1 |-> is_player1,
     color |-> IF is_player1 THEN "red" ELSE "black"]

\* Move.__init__ ("captured_coords or end_coords": a tuple is truthy)
Move(piece_moved, start_coords, end_coords, piece_captured, is_promotion, promoted_piece, turn_duration, captured_coords) ==
    [piece_moved |-> piece_moved, start_coords |-> start_coords,
     end_coords |-> end_coords, piece_captured |-> piece_captured,
     is_promotion |-> is_promotion, promoted_piece |-> promoted_piece,
     turn_duration |-> turn_duration,
     captured_coords |-> IF captured_coords # None THEN captured_coords
                         ELSE end_coords]

\* Move.is_jump
is_jump(move) == abs(move.start_coords[1] - move.end_coords[1]) = 2

(***************************************************************************)
(* engine.py: Game, read-only methods                                      *)
(***************************************************************************)
players == << Player("Red", TRUE), Player("Black", FALSE) >>

\* the position a list of BOARD_DIMENSION items gives the subscript i: a
\* negative subscript counts from the end
index(i) == IF i < 0 THEN i + BOARD_DIMENSION ELSE i

\* board[coords[0]][coords[1]] raises IndexError: a subscript is outside
\* -BOARD_DIMENSION .. BOARD_DIMENSION - 1
IndexError(coords) ==
    \E k \in 1..2 :
        coords[k] < -BOARD_DIMENSION \/ coords[k] >= BOARD_DIMENSION

\* Game.get_piece_at
get_piece_at(self, coords) == self.board[index(coords[1])][index(coords[2])]

\* Game.set_piece_at, as the new value of the board
set_piece_at(board, coords, piece) ==
    [board EXCEPT ![index(coords[1])][index(coords[2])] = piece]

\* Game.get_current_player
get_current_player(self) == players[self.current_player_index + 1]

\* Game._iterate_squares: all squares, row by row
_iterate_squares ==
    [i \in 1..(BOARD_DIMENSION * BOARD_DIMENSION) |->
        <<(i - 1) \div BOARD_DIMENSION, (i - 1) % BOARD_DIMENSION>>]

\* Game._get_all_jumps_for_player: list of <<start, destination>>; the loop
\* visits the squares in order and skips those without a piece of player
_get_all_jumps_for_player(self, player) ==
    LET own == SelectSeq(_iterate_squares,
                   LAMBDA rc : /\ get_piece_at(self, rc) # None
                               /\ get_piece_at(self, rc).is_player1
                                      = player.is_player1)
    IN  Concat([i \in DOMAIN own |->
            LET rc == own[i]
                piece == get_piece_at(self, rc)
                piece_moves ==
                    get_moves(piece, self.board, rc, self.move_history)
                jumps == SelectSeq(piece_moves,
                             LAMBDA m : abs(rc[1] - m[1]) = 2)
            IN  [k \in DOMAIN jumps |-> <<rc, jumps[k]>>]])

\* get_legal_moves_for_piece without the precedence of captures
get_legal_moves_for_piece_unforced(self, coords) ==
    LET piece == get_piece_at(self, coords) IN
    IF piece = None
       \/ piece.is_player1 # get_current_player(self).is_player1
    THEN <<>>
    ELSE get_moves(piece, self.board, coords, self.move_history)

\* Game.get_legal_moves_for_piece
get_legal_moves_for_piece(self, coords) ==
    LET piece == get_piece_at(self, coords) IN
    IF piece = None
       \/ piece.is_player1 # get_current_player(self).is_player1
    THEN <<>>
    ELSE LET all_jumps ==
                 _get_all_jumps_for_player(self, get_current_player(self))
         IN  IF all_jumps # <<>>
             THEN LET piece_jumps ==
                          SelectSeq(all_jumps, LAMBDA move : move[1] = coords)
                  IN  [k \in DOMAIN piece_jumps |-> piece_jumps[k][2]]
             ELSE get_moves(piece, self.board, coords, self.move_history)

\* p.name + p.color[0] if p else ' '
square_str(p) ==
    IF p # None
    THEN p.name \o (IF p.color = "red" THEN "r" ELSE "b")
    ELSE " "

\* the decimal digits
digits == <<"0", "1", "2", "3", "4", "5", "6", "7", "8", "9">>

RECURSIVE str(_)
\* str(i) for an int i >= 0
str(i) ==
    IF i < 10 THEN digits[i + 1]
    ELSE str(i \div 10) \o digits[(i % 10) + 1]

\* Game._get_position_hash
_get_position_hash(self) ==
    LET board_str ==
            join([i \in DOMAIN _iterate_squares |->
                     square_str(get_piece_at(self, _iterate_squares[i]))])
    IN  board_str \o str(self.current_player_index)

\* Game._update_position_history, as the new value of position_history
_update_position_history(self) ==
    LET pos_hash == _get_position_hash(self) IN
    (pos_hash :> (get(self.position_history, pos_hash) + 1))
        @@ self.position_history

\* player.color.title()
title(color) == IF color = "red" THEN "Red" ELSE "Black"

RECURSIVE join_with(_, _)
\* sep.join(parts)
join_with(sep, parts) ==
    IF parts = <<>> THEN ""
    ELSE IF Len(parts) = 1 THEN parts[1]
    ELSE join_with(sep, pop(parts)) \o sep \o last(parts)

\* the loop of Game.to_pdn: the piece_str of the pieces of one side, in the
\* order of the squares
pdn_pieces(self, is_player1) ==
    LET occupied ==
            SelectSeq(_iterate_squares,
                LAMBDA rc : /\ (rc[1] + rc[2]) % 2 = 1
                            /\ get_piece_at(self, rc) # None
                            /\ get_piece_at(self, rc).is_player1 = is_player1)
    IN  [i \in DOMAIN occupied |->
            LET rc == occupied[i]
                square_num == (rc[1] * 4) + (rc[2] \div 2) + 1
            IN  IF isinstance_King(get_piece_at(self, rc))
                THEN "K" \o str(square_num)
                ELSE str(square_num)]

\* Game.to_pdn
to_pdn(self) ==
    LET turn == IF get_current_player(self).is_player1 THEN "R" ELSE "B"
    IN  "[" \o turn \o ":" \o join_with(",", pdn_pieces(self, TRUE))
            \o ":" \o join_with(",", pdn_pieces(self, FALSE)) \o "]"

\* Game._update_game_status naming the side without a legal move the winner
_update_game_status_blocked_wins(self) ==
    IF get(self.position_history, _get_position_hash(self)) >= 3
    THEN "draw by threefold repetition"
    ELSE LET player == get_current_player(self)
             opponent_pieces ==
                 Cardinality({i \in DOMAIN _iterate_squares :
                     LET piece == get_piece_at(self, _iterate_squares[i])
                     IN  piece # None
                         /\ piece.is_player1 # player.is_player1})
             has_legal_move ==
                 \E i \in DOMAIN _iterate_squares :
                     LET piece == get_piece_at(self, _iterate_squares[i])
                     IN  /\ piece # None
                         /\ piece.is_player1 = player.is_player1
                         /\ get_legal_moves_for_piece(
                                self, _iterate_squares[i]) # <<>>
         IN  IF opponent_pieces = 0
             THEN title(player.color)
                      \o " wins - All opponent pieces captured"
             ELSE IF ~has_legal_move
                  THEN title(player.color)
                           \o " wins - no legal moves"
                  ELSE "active"

\* Game._update_game_status counting the pieces of the side to move
_update_game_status_own_pieces(self) ==
    IF get(self.position_history, _get_position_hash(self)) >= 3
    THEN "draw by threefold repetition"
    ELSE LET player == get_current_player(self)
             opponent_pieces ==
                 Cardinality({i \in DOMAIN _iterate_squares :
                     LET piece == get_piece_at(self, _iterate_squares[i])
                     IN  piece # None
                         /\ piece.is_player1 = player.is_player1})
             has_legal_move ==
                 \E i \in DOMAIN _iterate_squares :
                     LET piece == get_piece_at(self, _iterate_squares[i])
                     IN  /\ piece # None
                         /\ piece.is_player1 = player.is_player1
                         /\ get_legal_moves_for_piece(
                                self, _iterate_squares[i]) # <<>>
         IN  IF opponent_pieces = 0
             THEN title(player.color)
                      \o " wins - All opponent pieces captured"
             ELSE IF ~has_legal_move
                  THEN (IF player.is_player1 THEN "Black" ELSE "Red")
                           \o " wins - no legal moves"
                  ELSE "active"

\* Game._update_game_status, as the new value of game_state
_update_game_status(self) ==
    IF get(self.position_history, _get_position_hash(self)) >= 3
    THEN "draw by threefold repetition"
    ELSE LET player == get_current_player(self)
             opponent_pieces ==
                 Cardinality({i \in DOMAIN _iterate_squares :
                     LET piece == get_piece_at(self, _iterate_squares[i])
                     IN  piece # None
                         /\ piece.is_player1 # player.is_player1})
             has_legal_move ==
                 \E i \in DOMAIN _iterate_squares :
                     LET piece == get_piece_at(self, _iterate_squares[i])
                     IN  /\ piece # None
                         /\ piece.is_player1 = player.is_player1
                         /\ get_legal_moves_for_piece(
                                self, _iterate_squares[i]) # <<>>
         IN  IF opponent_pieces = 0
             THEN title(player.color)
                      \o " wins - All opponent pieces captured"
             ELSE IF ~has_legal_move
                  THEN (IF player.is_player1 THEN "Black" ELSE "Red")
                           \o " wins - no legal moves"
                  ELSE "active"

(***************************************************************************)
(* gui.py: the advisory reply.  A str that the program parses is the        *)
(* sequence of its characters.                                             *)
(***************************************************************************)
RECURSIVE split(_, _)
\* s.split(sep) for a separator of one character
split(s, sep) ==
    IF \A i \in DOMAIN s : s[i] # sep THEN <<s>>
    ELSE LET first == CHOOSE i \in DOMAIN s :
                          s[i] = sep /\ \A k \in 1..(i - 1) : s[k] # sep
         IN  <<SubSeq(s, 1, first - 1)>>
                 \o split(SubSeq(s, first + 1, Len(s)), sep)

\* int(s) does not raise ValueError, for s made of digits and '-'
is_int_literal(s) == s # <<>> /\ \A i \in DOMAIN s : s[i] \in Elems(digits)

RECURSIVE int(_)
\* int(s) for a literal s
int(s) ==
    IF s = <<>> THEN 0
    ELSE int(pop(s)) * 10
             + (CHOOSE d \in 0..9 : digits[d + 1] = last(s))

\* CheckersGUI._square_to_coords with the column offset of the other rows
_square_to_coords_offset_swapped(square) ==
    LET row == (square - 1) \div 4
        col == ((square - 1) % 4) * 2 + (row % 2)
    IN  <<row, col>>

\* CheckersGUI._square_to_coords
_square_to_coords(square) ==
    LET row == (square - 1) \div 4
        col == ((square - 1) % 4) * 2 + (1 - (row % 2))
    IN  <<row, col>>

\* None where a tuple of coordinates is expected: false as a condition, as
\* the empty tuple is
NoCoords == <<>>

\* CheckersGUI._parse_ai_move giving the end before the start
_parse_ai_move_end_first(move_str) ==
    LET parts == split(move_str, "-") IN
    IF Len(parts) = 2 /\ is_int_literal(parts[1]) /\ is_int_literal(parts[2])
    THEN <<_square_to_coords(int(parts[2])), _square_to_coords(int(parts[1]))>>
    ELSE <<NoCoords, NoCoords>>

\* CheckersGUI._parse_ai_move: <<start_coords, end_coords>>, or None twice
\* after a ValueError (a part that is no int, or not exactly two parts)
_parse_ai_move(move_str) ==
    LET parts == split(move_str, "-") IN
    IF Len(parts) = 2 /\ is_int_literal(parts[1]) /\ is_int_literal(parts[2])
    THEN <<_square_to_coords(int(parts[1])), _square_to_coords(int(parts[2]))>>
    ELSE <<NoCoords, NoCoords>>

(***************************************************************************)
(* engine.py: Game, construction and state-changing methods.  Each takes   *)
(* the Game as the record self and yields the Game after the call.         *)
(***************************************************************************)
\* Game._place_pieces, as the board it leaves
_place_pieces ==
    [row \in 0..(BOARD_DIMENSION - 1) |->
        [col \in 0..(BOARD_DIMENSION - 1) |->
            IF row \in 0..2 /\ (row + col) % 2 = 1 THEN Man(FALSE)
            ELSE IF row \in 5..7 /\ (row + col) % 2 = 1 THEN Man(TRUE)
            ELSE None]]

\* Game.__init__
NewGame ==
    LET constructed ==
            [board |-> _place_pieces,
             current_player_index |-> 0,
             game_state |-> "active",
             move_history |-> <<>>,
             red_captured |-> <<>>,
             black_captured |-> <<>>,
             red_turn_time |-> 0,
             black_turn_time |-> 0,
             position_history |-> <<>>]
    IN  [constructed EXCEPT
            !.position_history = _update_position_history(constructed)]

\* the promotion test of Game._execute_board_move with black never promoted
promotes_red_only(piece, end_coords) ==
    isinstance_Man(piece) /\ piece.is_player1 /\ end_coords[1] = 0

\* the promotion test of Game._execute_board_move: a red Man reaching row 0,
\* a black Man reaching row 7
promotes(piece, end_coords) ==
    /\ isinstance_Man(piece)
    /\ \/ piece.is_player1 /\ end_coords[1] = 0
       \/ ~piece.is_player1 /\ end_coords[1] = 7

\* Game._execute_board_move appending the captured piece to the list of the
\* captured piece's own side
_execute_board_move_own_list(self, start_coords, end_coords, elapsed_time) ==
    LET piece == get_piece_at(self, start_coords)
        jump == abs(start_coords[1] - end_coords[1]) = 2
        captured_coords ==
            IF jump
            THEN <<(start_coords[1] + end_coords[1]) \div 2,
                   (start_coords[2] + end_coords[2]) \div 2>>
            ELSE None
        captured_piece ==
            IF jump THEN get_piece_at(self, captured_coords) ELSE None
        board1 ==
            IF jump THEN set_piece_at(self.board, captured_coords, None)
            ELSE self.board
        is_promotion == promotes(piece, end_coords)
        promoted_piece == IF is_promotion THEN King(piece.is_player1) ELSE None
        board2 ==
            set_piece_at(board1, end_coords,
                         IF is_promotion THEN promoted_piece ELSE piece)
        board3 == set_piece_at(board2, start_coords, None)
    IN  [game |->
            [self EXCEPT
                !.board = board3,
                !.black_captured =
                    IF captured_piece # None /\ ~piece.is_player1
                    THEN Append(@, captured_piece) ELSE @,
                !.red_captured =
                    IF captured_piece # None /\ piece.is_player1
                    THEN Append(@, captured_piece) ELSE @],
         move |-> Move(piece, start_coords, end_coords, captured_piece,
                       is_promotion, promoted_piece, elapsed_time,
                       captured_coords)]

\* Game._execute_board_move: the Game after the board move, and the Move
_execute_board_move(self, start_coords, end_coords, elapsed_time) ==
    LET piece == get_piece_at(self, start_coords)
        jump == abs(start_coords[1] - end_coords[1]) = 2
        captured_coords ==
            IF jump
            THEN <<(start_coords[1] + end_coords[1]) \div 2,
                   (start_coords[2] + end_coords[2]) \div 2>>
            ELSE None
        captured_piece ==
            IF jump THEN get_piece_at(self, captured_coords) ELSE None
        board1 ==
            IF jump THEN set_piece_at(self.board, captured_coords, None)
            ELSE self.board
        is_promotion == promotes(piece, end_coords)
        promoted_piece == IF is_promotion THEN King(piece.is_player1) ELSE None
        board2 ==
            set_piece_at(board1, end_coords,
                         IF is_promotion THEN promoted_piece ELSE piece)
        board3 == set_piece_at(board2, start_coords, None)
    IN  [game |->
            [self EXCEPT
                !.board = board3,
                !.black_captured =
                    IF captured_piece # None /\ piece.is_player1
                    THEN Append(@, captured_piece) ELSE @,
                !.red_captured =
                    IF captured_piece # None /\ ~piece.is_player1
                    THEN Append(@, captured_piece) ELSE @],
         move |-> Move(piece, start_coords, end_coords, captured_piece,
                       is_promotion, promoted_piece, elapsed_time,
                       captured_coords)]

\* Game._update_game_after_move recomputing the status before the position is
\* counted
_update_game_after_move_status_first(self, move) ==
    LET appended == [self EXCEPT !.move_history = Append(@, move)]
        timed ==
            IF appended.current_player_index = 0
            THEN [appended EXCEPT !.red_turn_time = @ + move.turn_duration]
            ELSE [appended EXCEPT !.black_turn_time = @ + move.turn_duration]
        flipped ==
            [timed EXCEPT !.current_player_index = 1 - @]
        judged ==
            [flipped EXCEPT !.game_state = _update_game_status(flipped)]
    IN  [judged EXCEPT !.position_history = _update_position_history(judged)]

\* Game._update_game_after_move keeping the turn when the move was a jump
\* and the piece has a further jump from its destination
_update_game_after_move_continued(self, move) ==
    LET appended == [self EXCEPT !.move_history = Append(@, move)]
        timed ==
            IF appended.current_player_index = 0
            THEN [appended EXCEPT !.red_turn_time = @ + move.turn_duration]
            ELSE [appended EXCEPT !.black_turn_time = @ + move.turn_duration]
        further ==
            /\ abs(move.start_coords[1] - move.end_coords[1]) = 2
            /\ \E j \in Elems(_get_all_jumps_for_player(timed,
                                    get_current_player(timed))) :
                   j[1] = move.end_coords
        flipped ==
            IF further THEN timed
            ELSE [timed EXCEPT !.current_player_index = 1 - @]
        counted ==
            [flipped EXCEPT
                !.position_history = _update_position_history(flipped)]
    IN  [counted EXCEPT !.game_state = _update_game_status(counted)]

\* Game._update_game_after_move
_update_game_after_move(self, move) ==
    LET appended == [self EXCEPT !.move_history = Append(@, move)]
        timed ==
            IF appended.current_player_index = 0
            THEN [appended EXCEPT !.red_turn_time = @ + move.turn_duration]
            ELSE [appended EXCEPT !.black_turn_time = @ + move.turn_duration]
        flipped ==
            [timed EXCEPT !.current_player_index = 1 - @]
        counted ==
            [flipped EXCEPT
                !.position_history = _update_position_history(flipped)]
    IN  [counted EXCEPT !.game_state = _update_game_status(counted)]

\* Game.make_move without the test of the owner of the piece
make_move_any_side(self, start_coords, end_coords, elapsed_time) ==
    LET piece_to_move == get_piece_at(self, start_coords) IN
    IF piece_to_move = None
    THEN [ret |-> FALSE, game |-> self]
    ELSE LET executed == _execute_board_move(self, start_coords, end_coords,
                                             elapsed_time)
         IN  [ret |-> TRUE,
              game |-> _update_game_after_move(executed.game, executed.move)]

\* Game.make_move: the return value and the Game after the call
make_move(self, start_coords, end_coords, elapsed_time) ==
    LET piece_to_move == get_piece_at(self, start_coords) IN
    IF piece_to_move = None
       \/ piece_to_move.is_player1 # get_current_player(self).is_player1
    THEN [ret |-> FALSE, game |-> self]
    ELSE LET executed == _execute_board_move(self, start_coords, end_coords,
                                             elapsed_time)
         IN  [ret |-> TRUE,
              game |-> _update_game_after_move(executed.game, executed.move)]

\* Game.undo_last_move without the captured piece put back
undo_last_move_capture_lost(self) ==
    IF self.move_history = <<>> THEN self
    ELSE LET move == last(self.move_history)
             restored ==
                 set_piece_at(self.board, move.start_coords, move.piece_moved)
             cleared ==
                 IF move.is_promotion
                 THEN set_piece_at(
                          set_piece_at(restored, move.start_coords,
                                       Man(move.piece_moved.is_player1)),
                          move.end_coords, None)
                 ELSE set_piece_at(restored, move.end_coords, None)
             uncaptured == cleared
             popped ==
                 [self EXCEPT
                     !.move_history = pop(@),
                     !.board = uncaptured,
                     !.black_captured =
                         IF move.piece_captured # None
                            /\ move.piece_moved.is_player1
                         THEN pop(@) ELSE @,
                     !.red_captured =
                         IF move.piece_captured # None
                            /\ ~move.piece_moved.is_player1
                         THEN pop(@) ELSE @,
                     !.red_turn_time =
                         IF move.piece_moved.is_player1
                         THEN @ - move.turn_duration ELSE @,
                     !.black_turn_time =
                         IF move.piece_moved.is_player1
                         THEN @ ELSE @ - move.turn_duration,
                     !.current_player_index = 1 - @]
         IN  [popped EXCEPT !.game_state = _update_game_status(popped)]

\* Game.undo_last_move taking back the occurrence of the position it leaves
undo_last_move_occurrence_forgotten(self) ==
    IF self.move_history = <<>> THEN self
    ELSE LET left == _get_position_hash(self)
             forgotten ==
                 [self EXCEPT !.position_history =
                     (left :> (get(@, left) - 1)) @@ @]
             move == last(forgotten.move_history)
             restored ==
                 set_piece_at(forgotten.board, move.start_coords,
                              move.piece_moved)
             cleared ==
                 IF move.is_promotion
                 THEN set_piece_at(
                          set_piece_at(restored, move.start_coords,
                                       Man(move.piece_moved.is_player1)),
                          move.end_coords, None)
                 ELSE set_piece_at(restored, move.end_coords, None)
             uncaptured ==
                 IF move.piece_captured # None /\ is_jump(move)
                 THEN set_piece_at(cleared,
                          <<(move.start_coords[1] + move.end_coords[1]) \div 2,
                            (move.start_coords[2] + move.end_coords[2]) \div 2>>,
                          move.piece_captured)
                 ELSE cleared
             popped ==
                 [forgotten EXCEPT
                     !.move_history = pop(@),
                     !.board = uncaptured,
                     !.black_captured =
                         IF move.piece_captured # None
                            /\ move.piece_moved.is_player1
                         THEN pop(@) ELSE @,
                     !.red_captured =
                         IF move.piece_captured # None
                            /\ ~move.piece_moved.is_player1
                         THEN pop(@) ELSE @,
                     !.red_turn_time =
                         IF move.piece_moved.is_player1
                         THEN @ - move.turn_duration ELSE @,
                     !.black_turn_time =
                         IF move.piece_moved.is_player1
                         THEN @ ELSE @ - move.turn_duration,
                     !.current_player_index = 1 - @]
         IN  [popped EXCEPT !.game_state = _update_game_status(popped)]

\* Game.undo_last_move leaving the captured piece in the captured list
undo_last_move_list_kept(self) ==
    IF self.move_history = <<>> THEN self
    ELSE LET move == last(self.move_history)
             restored ==
                 set_piece_at(self.board, move.start_coords, move.piece_moved)
             cleared ==
                 IF move.is_promotion
                 THEN set_piece_at(
                          set_piece_at(restored, move.start_coords,
                                       Man(move.piece_moved.is_player1)),
                          move.end_coords, None)
                 ELSE set_piece_at(restored, move.end_coords, None)
             uncaptured ==
                 IF move.piece_captured # None /\ is_jump(move)
                 THEN set_piece_at(cleared,
                          <<(move.start_coords[1] + move.end_coords[1]) \div 2,
                            (move.start_coords[2] + move.end_coords[2]) \div 2>>,
                          move.piece_captured)
                 ELSE cleared
             popped ==
                 [self EXCEPT
                     !.move_history = pop(@),
                     !.board = uncaptured,
                     !.red_turn_time =
                         IF move.piece_moved.is_player1
                         THEN @ - move.turn_duration ELSE @,
                     !.black_turn_time =
                         IF move.piece_moved.is_player1
                         THEN @ ELSE @ - move.turn_duration,
                     !.current_player_index = 1 - @]
         IN  [popped EXCEPT !.game_state = _update_game_status(popped)]

\* Game.undo_last_move demoting the promoted piece where it stands
undo_last_move_demoted_in_place(self) ==
    IF self.move_history = <<>> THEN self
    ELSE LET move == last(self.move_history)
             restored ==
                 set_piece_at(self.board, move.start_coords, move.piece_moved)
             cleared ==
                 IF move.is_promotion
                 THEN set_piece_at(
                          set_piece_at(restored, move.end_coords,
                                       Man(move.piece_moved.is_player1)),
                          move.start_coords, None)
                 ELSE set_piece_at(restored, move.end_coords, None)
             uncaptured ==
                 IF move.piece_captured # None /\ is_jump(move)
                 THEN set_piece_at(cleared,
                          <<(move.start_coords[1] + move.end_coords[1]) \div 2,
                            (move.start_coords[2] + move.end_coords[2]) \div 2>>,
                          move.piece_captured)
                 ELSE cleared
             popped ==
                 [self EXCEPT
                     !.move_history = pop(@),
                     !.board = uncaptured,
                     !.black_captured =
                         IF move.piece_captured # None
                            /\ move.piece_moved.is_player1
                         THEN pop(@) ELSE @,
                     !.red_captured =
                         IF move.piece_captured # None
                            /\ ~move.piece_moved.is_player1
                         THEN pop(@) ELSE @,
                     !.red_turn_time =
                         IF move.piece_moved.is_player1
                         THEN @ - move.turn_duration ELSE @,
                     !.black_turn_time =
                         IF move.piece_moved.is_player1
                         THEN @ ELSE @ - move.turn_duration,
                     !.current_player_index = 1 - @]
         IN  [popped EXCEPT !.game_state = _update_game_status(popped)]

\* Game.undo_last_move leaving the turn with the side it was with
undo_last_move_turn_kept(self) ==
    IF self.move_history = <<>> THEN self
    ELSE LET move == last(self.move_history)
             restored ==
                 set_piece_at(self.board, move.start_coords, move.piece_moved)
             cleared ==
                 IF move.is_promotion
                 THEN set_piece_at(
                          set_piece_at(restored, move.start_coords,
                                       Man(move.piece_moved.is_player1)),
                          move.end_coords, None)
                 ELSE set_piece_at(restored, move.end_coords, None)
             uncaptured ==
                 IF move.piece_captured # None /\ is_jump(move)
                 THEN set_piece_at(cleared,
                          <<(move.start_coords[1] + move.end_coords[1]) \div 2,
                            (move.start_coords[2] + move.end_coords[2]) \div 2>>,
                          move.piece_captured)
                 ELSE cleared
             popped ==
                 [self EXCEPT
                     !.move_history = pop(@),
                     !.board = uncaptured,
                     !.black_captured =
                         IF move.piece_captured # None
                            /\ move.piece_moved.is_player1
                         THEN pop(@) ELSE @,
                     !.red_captured =
                         IF move.piece_captured # None
                            /\ ~move.piece_moved.is_player1
                         THEN pop(@) ELSE @,
                     !.red_turn_time =
                         IF move.piece_moved.is_player1
                         THEN @ - move.turn_duration ELSE @,
                     !.black_turn_time =
                         IF move.piece_moved.is_player1
                         THEN @ ELSE @ - move.turn_duration]
         IN  [popped EXCEPT !.game_state = _update_game_status(popped)]

\* Game.undo_last_move
undo_last_move(self) ==
    IF self.move_history = <<>> THEN self
    ELSE LET move == last(self.move_history)
             restored ==
                 set_piece_at(self.board, move.start_coords, move.piece_moved)
             cleared ==
                 IF move.is_promotion
                 THEN set_piece_at(
                          set_piece_at(restored, move.start_coords,
                                       Man(move.piece_moved.is_player1)),
                          move.end_coords, None)
                 ELSE set_piece_at(restored, move.end_coords, None)
             uncaptured ==
                 IF move.piece_captured # None /\ is_jump(move)
                 THEN set_piece_at(cleared,
                          <<(move.start_coords[1] + move.end_coords[1]) \div 2,
                            (move.start_coords[2] + move.end_coords[2]) \div 2>>,
                          move.piece_captured)
                 ELSE cleared
             popped ==
                 [self EXCEPT
                     !.move_history = pop(@),
                     !.board = uncaptured,
                     !.black_captured =
                         IF move.piece_captured # None
                            /\ move.piece_moved.is_player1
                         THEN pop(@) ELSE @,
                     !.red_captured =
                         IF move.piece_captured # None
                            /\ ~move.piece_moved.is_player1
                         THEN pop(@) ELSE @,
                     !.red_turn_time =
                         IF move.piece_moved.is_player1
                         THEN @ - move.turn_duration ELSE @,
                     !.black_turn_time =
                         IF move.piece_moved.is_player1
                         THEN @ ELSE @ - move.turn_duration,
                     !.current_player_index = 1 - @]
         IN  [popped EXCEPT !.game_state = _update_game_status(popped)]

\* Game.resign doing nothing once the game is over
resign_when_active(self) ==
    LET winner == IF self.current_player_index = 0 THEN "Black" ELSE "Red"
    IN  IF self.game_state = "active"
        THEN [self EXCEPT !.game_state = "resignation - " \o winner \o " wins"]
        ELSE self

\* Game.resign
resign(self) ==
    LET winner == IF self.current_player_index = 0 THEN "Black" ELSE "Red"
    IN  [self EXCEPT !.game_state = "resignation - " \o winner \o " wins"]

\* Game.offer_draw
offer_draw(self) == [self EXCEPT !.game_state = "draw by agreement"]

(***************************************************************************)
(* The state: the attributes of the Game held by the front-end             *)
(* (CheckersGUI.game) and three history variables:                         *)
(*   last_call  the last call made on the Game, with its arguments (for    *)
(*              undo_last_move, the Move and the position_history it       *)
(*              found),                                                    *)
(*   reached    for every position (pieces on the board and side to move), *)
(*              how often construction or a make_move has produced it,     *)
(*   budget     the number of calls still explored from this state.        *)
(***************************************************************************)
VARIABLES board, current_player_index, game_state, move_history,
          red_captured, black_captured, red_turn_time, black_turn_time,
          position_history, last_call, reached, budget

(***************************************************************************)
(* The attributes of the CheckersGUI that the advisory player uses, the    *)
(* worker threads it has started, the exception that has left run(), if    *)
(* any, and a history variable:                                            *)
(*   request    how many requests were started, how many non-empty results *)
(*              were stored and taken, how many make_move calls            *)
(*              _process_ai_result made, and the position string the last  *)
(*              worker encoded.                                            *)
(***************************************************************************)
VARIABLES white_player, black_player, ai_is_thinking, ai_move_result,
          threads, exception, request

gui_vars == <<white_player, black_player, ai_is_thinking, ai_move_result,
              threads, exception, request>>

vars == <<board, current_player_index, game_state, move_history,
          red_captured, black_captured, red_turn_time, black_turn_time,
          position_history, last_call, reached, budget, white_player,
          black_player, ai_is_thinking, ai_move_result, threads, exception,
          request>>

\* the Game object as a record
game ==
    [board |-> board,
     current_player_index |-> current_player_index,
     game_state |-> game_state,
     move_history |-> move_history,
     red_captured |-> red_captured,
     black_captured |-> black_captured,
     red_turn_time |-> red_turn_time,
     black_turn_time |-> black_turn_time,
     position_history |-> position_history]

\* the Game object is g
GameIs(g) ==
    /\ board = g.board
    /\ current_player_index = g.current_player_index
    /\ game_state = g.game_state
    /\ move_history = g.move_history
    /\ red_captured = g.red_captured
    /\ black_captured = g.black_captured
    /\ red_turn_time = g.red_turn_time
    /\ black_turn_time = g.black_turn_time
    /\ position_history = g.position_history

\* the Game object becomes g
Becomes(g) ==
    /\ board' = g.board
    /\ current_player_index' = g.current_player_index
    /\ game_state' = g.game_state
    /\ move_history' = g.move_history
    /\ red_captured' = g.red_captured
    /\ black_captured' = g.black_captured
    /\ red_turn_time' = g.red_turn_time
    /\ black_turn_time' = g.black_turn_time
    /\ position_history' = g.position_history

\* all coordinates a click on the board can produce
Squares == Elems(_iterate_squares)

\* the position of a Game: what stands where, and who is to move
PositionOf(self) ==
    [pieces |-> {<<rc, get_piece_at(self, rc)>> :
                    rc \in {sq \in Squares : get_piece_at(self, sq) # None}},
     turn |-> self.current_player_index]

\* one more occurrence of position p
Count(occurrences, p) == (p :> (get(occurrences, p) + 1)) @@ occurrences

\* the description of a make_move call kept in last_call
MakeMoveCall(start_coords, end_coords, elapsed_time, ret) ==
    [op |-> "make_move", start |-> start_coords, end |-> end_coords,
     elapsed |-> elapsed_time, ret |-> ret]

\* CheckersGUI.handle_square_click with a piece selected, and
\* CheckersGUI._process_ai_result: make_move is called only with a
\* destination that get_legal_moves_for_piece returned.  The argument and
\* the result are a Game with its history variables.
submit_move(observed, start_coords, end_coords, elapsed_time) ==
    IF end_coords
          \in Elems(get_legal_moves_for_piece(observed.game, start_coords))
    THEN LET call == make_move(observed.game, start_coords, end_coords,
                               elapsed_time)
         IN  [game |-> call.game,
              last_call |-> MakeMoveCall(start_coords, end_coords,
                                         elapsed_time, call.ret),
              reached |-> IF call.ret
                          THEN Count(observed.reached, PositionOf(call.game))
                          ELSE observed.reached]
    ELSE observed

\* a Game just constructed, with its history variables
Constructed ==
    [game |-> NewGame,
     last_call |-> [op |-> "__init__"],
     reached |-> Count(<<>>, PositionOf(NewGame))]

RECURSIVE play_range(_, _, _, _)
\* the Game after the moves line[lo..hi], each <<start, end>>, have been
\* submitted in order, one clock tick per turn (split in halves to keep the
\* evaluation shallow)
play_range(observed, line, lo, hi) ==
    IF lo > hi THEN observed
    ELSE IF lo = hi
    THEN submit_move(observed, line[lo][1], line[lo][2], 1)
    ELSE LET mid == (lo + hi) \div 2
             half == play_range(observed, line, lo, mid)
         IN  IF half.game.current_player_index \in {0, 1}
             THEN play_range(half, line, mid + 1, hi)
             ELSE half

\* a new Game after the moves of line have been submitted in order
play(line) == play_range(Constructed, line, 1, Len(line))

\* the undo button in a game of two humans: one undo_last_move call
_undo_move(observed) ==
    [game |-> undo_last_move(observed.game),
     last_call |-> [op |-> "undo_last_move",
                    move |-> IF observed.game.move_history = <<>> THEN None
                             ELSE last(observed.game.move_history),
                    after |-> observed.last_call.op,
                    position_history |-> observed.game.position_history],
     reached |-> observed.reached]

RECURSIVE replay_last(_, _)
\* the last move taken back with the undo button and submitted again, times
\* times over
replay_last(observed, times) ==
    IF times = 0 THEN observed
    ELSE LET move == last(observed.game.move_history)
         IN  replay_last(submit_move(_undo_move(observed), move.start_coords,
                                     move.end_coords, 1),
                         times - 1)

(***************************************************************************)
(* Games played before the initial states.  Every move of a line is        *)
(* submitted through submit_move, so each line leads to a state the        *)
(* program reaches from a new Game.                                        *)
(***************************************************************************)
\* 38 plies; black's man on (5,2) has jumped red's last piece and landed on row 7
LineBlackPromotingJump ==
    <<
       <<<<5, 6>>, <<4, 7>>>>, <<<<2, 1>>, <<3, 0>>>>, <<<<5, 2>>, <<4, 1>>>>,
       <<<<3, 0>>, <<5, 2>>>>, <<<<6, 3>>, <<4, 1>>>>, <<<<2, 3>>, <<3, 4>>>>,
       <<<<7, 4>>, <<6, 3>>>>, <<<<1, 2>>, <<2, 3>>>>, <<<<4, 7>>, <<3, 6>>>>,
       <<<<2, 5>>, <<4, 7>>>>, <<<<5, 4>>, <<4, 3>>>>, <<<<3, 4>>, <<5, 2>>>>,
       <<<<6, 1>>, <<4, 3>>>>, <<<<2, 7>>, <<3, 6>>>>, <<<<4, 1>>, <<3, 2>>>>,
       <<<<2, 3>>, <<4, 1>>>>, <<<<5, 0>>, <<3, 2>>>>, <<<<1, 4>>, <<2, 5>>>>,
       <<<<6, 5>>, <<5, 6>>>>, <<<<4, 7>>, <<6, 5>>>>, <<<<7, 6>>, <<5, 4>>>>,
       <<<<2, 5>>, <<3, 4>>>>, <<<<4, 3>>, <<2, 5>>>>, <<<<1, 6>>, <<3, 4>>>>,
       <<<<6, 3>>, <<5, 2>>>>, <<<<0, 3>>, <<1, 2>>>>, <<<<5, 2>>, <<4, 3>>>>,
       <<<<3, 4>>, <<5, 2>>>>, <<<<3, 2>>, <<2, 3>>>>, <<<<1, 2>>, <<3, 4>>>>,
       <<<<5, 4>>, <<4, 5>>>>, <<<<3, 4>>, <<5, 6>>>>, <<<<6, 7>>, <<4, 5>>>>,
       <<<<3, 6>>, <<5, 4>>>>, <<<<7, 2>>, <<6, 3>>>>, <<<<5, 4>>, <<7, 2>>>>,
       <<<<7, 0>>, <<6, 1>>>>, <<<<5, 2>>, <<7, 0>>>>
    >>

\* 40 plies; red to move: the man on (2,5) must jump black's last piece and lands on row 0
LineRedPromotingJump ==
    <<
       <<<<5, 0>>, <<4, 1>>>>, <<<<2, 3>>, <<3, 2>>>>, <<<<4, 1>>, <<2, 3>>>>,
       <<<<1, 2>>, <<3, 4>>>>, <<<<6, 1>>, <<5, 0>>>>, <<<<2, 1>>, <<3, 2>>>>,
       <<<<5, 4>>, <<4, 5>>>>, <<<<3, 2>>, <<4, 1>>>>, <<<<5, 0>>, <<3, 2>>>>,
       <<<<1, 4>>, <<2, 3>>>>, <<<<3, 2>>, <<1, 4>>>>, <<<<0, 5>>, <<2, 3>>>>,
       <<<<5, 2>>, <<4, 3>>>>, <<<<3, 4>>, <<5, 2>>>>, <<<<6, 3>>, <<4, 1>>>>,
       <<<<0, 3>>, <<1, 2>>>>, <<<<7, 2>>, <<6, 3>>>>, <<<<1, 0>>, <<2, 1>>>>,
       <<<<4, 5>>, <<3, 6>>>>, <<<<2, 7>>, <<4, 5>>>>, <<<<5, 6>>, <<3, 4>>>>,
       <<<<2, 5>>, <<4, 3>>>>, <<<<7, 0>>, <<6, 1>>>>, <<<<2, 1>>, <<3, 2>>>>,
       <<<<6, 1>>, <<5, 0>>>>, <<<<2, 3>>, <<3, 4>>>>, <<<<4, 1>>, <<2, 3>>>>,
       <<<<0, 1>>, <<1, 0>>>>, <<<<2, 3>>, <<0, 1>>>>, <<<<4, 3>>, <<5, 4>>>>,
       <<<<6, 3>>, <<4, 5>>>>, <<<<3, 4>>, <<5, 6>>>>, <<<<6, 5>>, <<4, 7>>>>,
       <<<<1, 6>>, <<2, 7>>>>, <<<<0, 1>>, <<1, 2>>>>, <<<<2, 7>>, <<3, 6>>>>,
       <<<<4, 7>>, <<2, 5>>>>, <<<<1, 0>>, <<2, 1>>>>, <<<<1, 2>>, <<3, 0>>>>,
       <<<<0, 7>>, <<1, 6>>>>
    >>

\* 43 plies; black to move: after its forced jump red's only man is blocked
LineRedBlocked ==
    <<
       <<<<5, 6>>, <<4, 7>>>>, <<<<2, 1>>, <<3, 2>>>>, <<<<5, 0>>, <<4, 1>>>>,
       <<<<3, 2>>, <<5, 0>>>>, <<<<6, 5>>, <<5, 6>>>>, <<<<1, 2>>, <<2, 1>>>>,
       <<<<5, 2>>, <<4, 3>>>>, <<<<2, 3>>, <<3, 2>>>>, <<<<6, 3>>, <<5, 2>>>>,
       <<<<0, 3>>, <<1, 2>>>>, <<<<7, 4>>, <<6, 3>>>>, <<<<1, 4>>, <<2, 3>>>>,
       <<<<7, 6>>, <<6, 5>>>>, <<<<2, 1>>, <<3, 0>>>>, <<<<4, 3>>, <<2, 1>>>>,
       <<<<1, 0>>, <<3, 2>>>>, <<<<4, 7>>, <<3, 6>>>>, <<<<2, 7>>, <<4, 5>>>>,
       <<<<5, 6>>, <<3, 4>>>>, <<<<2, 3>>, <<4, 5>>>>, <<<<5, 4>>, <<3, 6>>>>,
       <<<<2, 5>>, <<4, 7>>>>, <<<<6, 5>>, <<5, 4>>>>, <<<<3, 2>>, <<4, 3>>>>,
       <<<<5, 2>>, <<3, 4>>>>, <<<<1, 2>>, <<2, 3>>>>, <<<<3, 4>>, <<1, 2>>>>,
       <<<<0, 1>>, <<2, 3>>>>, <<<<6, 3>>, <<5, 2>>>>, <<<<2, 3>>, <<3, 2>>>>,
       <<<<7, 2>>, <<6, 3>>>>, <<<<5, 0>>, <<7, 2>>>>, <<<<5, 4>>, <<4, 3>>>>,
       <<<<3, 2>>, <<5, 4>>>>, <<<<6, 3>>, <<4, 5>>>>, <<<<7, 2>>, <<6, 3>>>>,
       <<<<4, 5>>, <<3, 6>>>>, <<<<6, 3>>, <<4, 1>>>>, <<<<3, 6>>, <<2, 7>>>>,
       <<<<4, 1>>, <<5, 0>>>>, <<<<7, 0>>, <<6, 1>>>>, <<<<5, 0>>, <<7, 2>>>>,
       <<<<6, 7>>, <<5, 6>>>>
    >>

\* 40 plies; red to move: after the king's forced jump black's only man is blocked
LineBlackBlocked ==
    <<
       <<<<5, 0>>, <<4, 1>>>>, <<<<2, 1>>, <<3, 0>>>>, <<<<5, 4>>, <<4, 3>>>>,
       <<<<2, 5>>, <<3, 6>>>>, <<<<5, 6>>, <<4, 5>>>>, <<<<3, 6>>, <<5, 4>>>>,
       <<<<6, 3>>, <<4, 5>>>>, <<<<1, 2>>, <<2, 1>>>>, <<<<4, 3>>, <<3, 4>>>>,
       <<<<1, 4>>, <<2, 5>>>>, <<<<3, 4>>, <<1, 2>>>>, <<<<0, 1>>, <<2, 3>>>>,
       <<<<7, 2>>, <<6, 3>>>>, <<<<2, 1>>, <<3, 2>>>>, <<<<5, 2>>, <<4, 3>>>>,
       <<<<3, 2>>, <<5, 4>>>>, <<<<6, 5>>, <<4, 3>>>>, <<<<3, 0>>, <<5, 2>>>>,
       <<<<6, 3>>, <<4, 1>>>>, <<<<2, 3>>, <<3, 2>>>>, <<<<4, 3>>, <<2, 1>>>>,
       <<<<1, 0>>, <<3, 2>>>>, <<<<4, 1>>, <<2, 3>>>>, <<<<2, 7>>, <<3, 6>>>>,
       <<<<4, 5>>, <<2, 7>>>>, <<<<0, 3>>, <<1, 2>>>>, <<<<2, 3>>, <<0, 1>>>>,
       <<<<2, 5>>, <<3, 4>>>>, <<<<7, 4>>, <<6, 3>>>>, <<<<0, 5>>, <<1, 4>>>>,
       <<<<2, 7>>, <<0, 5>>>>, <<<<3, 4>>, <<4, 5>>>>, <<<<0, 5>>, <<2, 3>>>>,
       <<<<0, 7>>, <<1, 6>>>>, <<<<0, 1>>, <<1, 0>>>>, <<<<1, 6>>, <<2, 5>>>>,
       <<<<6, 1>>, <<5, 2>>>>, <<<<2, 5>>, <<3, 4>>>>, <<<<6, 7>>, <<5, 6>>>>,
       <<<<4, 5>>, <<6, 7>>>>
    >>

\* 49 plies; black to move: its man reaches row 7 by a simple move, then a red man can reach row 0
LinePromotion ==
    <<
       <<<<5, 6>>, <<4, 7>>>>, <<<<2, 1>>, <<3, 0>>>>, <<<<5, 2>>, <<4, 3>>>>,
       <<<<3, 0>>, <<4, 1>>>>, <<<<5, 0>>, <<3, 2>>>>, <<<<2, 3>>, <<4, 1>>>>,
       <<<<6, 1>>, <<5, 0>>>>, <<<<1, 4>>, <<2, 3>>>>, <<<<5, 0>>, <<3, 2>>>>,
       <<<<2, 3>>, <<4, 1>>>>, <<<<4, 3>>, <<3, 4>>>>, <<<<2, 5>>, <<4, 3>>>>,
       <<<<5, 4>>, <<3, 2>>>>, <<<<1, 2>>, <<2, 3>>>>, <<<<3, 2>>, <<1, 4>>>>,
       <<<<0, 5>>, <<2, 3>>>>, <<<<6, 5>>, <<5, 6>>>>, <<<<4, 1>>, <<5, 0>>>>,
       <<<<5, 6>>, <<4, 5>>>>, <<<<1, 0>>, <<2, 1>>>>, <<<<6, 3>>, <<5, 4>>>>,
       <<<<2, 3>>, <<3, 4>>>>, <<<<4, 5>>, <<2, 3>>>>, <<<<2, 1>>, <<3, 0>>>>,
       <<<<7, 2>>, <<6, 1>>>>, <<<<5, 0>>, <<7, 2>>>>, <<<<5, 4>>, <<4, 3>>>>,
       <<<<2, 7>>, <<3, 6>>>>, <<<<4, 7>>, <<2, 5>>>>, <<<<1, 6>>, <<3, 4>>>>,
       <<<<4, 3>>, <<2, 5>>>>, <<<<0, 1>>, <<1, 2>>>>, <<<<2, 3>>, <<0, 1>>>>,
       <<<<3, 0>>, <<4, 1>>>>, <<<<2, 5>>, <<1, 6>>>>, <<<<0, 7>>, <<2, 5>>>>,
       <<<<7, 4>>, <<6, 3>>>>, <<<<7, 2>>, <<5, 4>>>>, <<<<7, 0>>, <<6, 1>>>>,
       <<<<2, 5>>, <<3, 4>>>>, <<<<6, 1>>, <<5, 0>>>>, <<<<3, 4>>, <<4, 3>>>>,
       <<<<5, 0>>, <<3, 2>>>>, <<<<5, 4>>, <<6, 5>>>>, <<<<7, 6>>, <<5, 4>>>>,
       <<<<4, 3>>, <<6, 5>>>>, <<<<0, 1>>, <<1, 2>>>>, <<<<0, 3>>, <<2, 1>>>>,
       <<<<3, 2>>, <<1, 0>>>>
    >>

\* 43 plies; black to move: the man on (1,6) must jump red's King
LineKingCaptured ==
    <<
       <<<<5, 6>>, <<4, 7>>>>, <<<<2, 5>>, <<3, 6>>>>, <<<<4, 7>>, <<2, 5>>>>,
       <<<<1, 6>>, <<3, 4>>>>, <<<<5, 2>>, <<4, 3>>>>, <<<<3, 4>>, <<5, 2>>>>,
       <<<<6, 3>>, <<4, 1>>>>, <<<<1, 4>>, <<2, 5>>>>, <<<<6, 1>>, <<5, 2>>>>,
       <<<<0, 5>>, <<1, 4>>>>, <<<<7, 4>>, <<6, 3>>>>, <<<<2, 3>>, <<3, 4>>>>,
       <<<<5, 2>>, <<4, 3>>>>, <<<<3, 4>>, <<5, 2>>>>, <<<<4, 1>>, <<3, 0>>>>,
       <<<<5, 2>>, <<7, 4>>>>, <<<<5, 4>>, <<4, 5>>>>, <<<<7, 4>>, <<5, 6>>>>,
       <<<<7, 2>>, <<6, 3>>>>, <<<<5, 6>>, <<3, 4>>>>, <<<<6, 3>>, <<5, 4>>>>,
       <<<<1, 4>>, <<2, 3>>>>, <<<<7, 6>>, <<6, 5>>>>, <<<<0, 3>>, <<1, 4>>>>,
       <<<<5, 0>>, <<4, 1>>>>, <<<<2, 1>>, <<3, 2>>>>, <<<<3, 0>>, <<2, 1>>>>,
       <<<<3, 2>>, <<5, 0>>>>, <<<<2, 1>>, <<0, 3>>>>, <<<<1, 0>>, <<2, 1>>>>,
       <<<<7, 0>>, <<6, 1>>>>, <<<<5, 0>>, <<7, 2>>>>, <<<<5, 4>>, <<4, 5>>>>,
       <<<<3, 4>>, <<5, 6>>>>, <<<<6, 7>>, <<4, 5>>>>, <<<<0, 7>>, <<1, 6>>>>,
       <<<<6, 5>>, <<5, 4>>>>, <<<<7, 2>>, <<6, 3>>>>, <<<<4, 5>>, <<3, 6>>>>,
       <<<<2, 7>>, <<4, 5>>>>, <<<<5, 4>>, <<3, 6>>>>, <<<<2, 5>>, <<4, 7>>>>,
       <<<<0, 3>>, <<2, 5>>>>
    >>

\* 64 plies; one King each, the last seven plies shuttle both Kings: every position of the cycle has occurred twice and red is to move
LineRepetition ==
    <<
       <<<<5, 4>>, <<4, 3>>>>, <<<<2, 1>>, <<3, 0>>>>, <<<<4, 3>>, <<3, 4>>>>,
       <<<<2, 5>>, <<4, 3>>>>, <<<<5, 2>>, <<3, 4>>>>, <<<<2, 3>>, <<4, 5>>>>,
       <<<<5, 6>>, <<3, 4>>>>, <<<<3, 0>>, <<4, 1>>>>, <<<<5, 0>>, <<3, 2>>>>,
       <<<<1, 6>>, <<2, 5>>>>, <<<<3, 4>>, <<1, 6>>>>, <<<<0, 7>>, <<2, 5>>>>,
       <<<<6, 5>>, <<5, 4>>>>, <<<<1, 4>>, <<2, 3>>>>, <<<<3, 2>>, <<1, 4>>>>,
       <<<<0, 5>>, <<2, 3>>>>, <<<<6, 3>>, <<5, 2>>>>, <<<<2, 5>>, <<3, 6>>>>,
       <<<<5, 2>>, <<4, 1>>>>, <<<<1, 0>>, <<2, 1>>>>, <<<<7, 2>>, <<6, 3>>>>,
       <<<<2, 3>>, <<3, 4>>>>, <<<<4, 1>>, <<3, 0>>>>, <<<<3, 6>>, <<4, 5>>>>,
       <<<<5, 4>>, <<3, 6>>>>, <<<<2, 7>>, <<4, 5>>>>, <<<<6, 1>>, <<5, 0>>>>,
       <<<<3, 4>>, <<4, 3>>>>, <<<<7, 6>>, <<6, 5>>>>, <<<<0, 1>>, <<1, 0>>>>,
       <<<<5, 0>>, <<4, 1>>>>, <<<<2, 1>>, <<3, 2>>>>, <<<<4, 1>>, <<2, 3>>>>,
       <<<<1, 2>>, <<3, 4>>>>, <<<<6, 3>>, <<5, 4>>>>, <<<<4, 5>>, <<6, 3>>>>,
       <<<<7, 4>>, <<5, 2>>>>, <<<<4, 3>>, <<6, 1>>>>, <<<<7, 0>>, <<5, 2>>>>,
       <<<<1, 0>>, <<2, 1>>>>, <<<<3, 0>>, <<1, 2>>>>, <<<<0, 3>>, <<2, 1>>>>,
       <<<<6, 7>>, <<5, 6>>>>, <<<<2, 1>>, <<3, 2>>>>, <<<<5, 2>>, <<4, 3>>>>,
       <<<<3, 2>>, <<5, 4>>>>, <<<<6, 5>>, <<4, 3>>>>, <<<<3, 4>>, <<5, 2>>>>,
       <<<<5, 6>>, <<4, 7>>>>, <<<<5, 2>>, <<6, 1>>>>, <<<<4, 7>>, <<3, 6>>>>,
       <<<<6, 1>>, <<7, 2>>>>, <<<<3, 6>>, <<2, 7>>>>, <<<<7, 2>>, <<6, 1>>>>,
       <<<<2, 7>>, <<1, 6>>>>, <<<<6, 1>>, <<5, 0>>>>, <<<<1, 6>>, <<0, 5>>>>,
       <<<<5, 0>>, <<6, 1>>>>, <<<<0, 5>>, <<1, 6>>>>, <<<<6, 1>>, <<5, 0>>>>,
       <<<<1, 6>>, <<0, 5>>>>, <<<<5, 0>>, <<6, 1>>>>, <<<<0, 5>>, <<1, 6>>>>,
       <<<<6, 1>>, <<5, 0>>>>
    >>

(***************************************************************************)
(* Bounds.                                                                 *)
(***************************************************************************)
\* calls explored from a new Game
MaxOpeningOps == 1

\* calls explored from the Game a line leads to
MaxOps == 2

\* largest elapsed time of a turn, in clock ticks
MaxElapsed == 1

\* how many rows and columns the destination of an unvalidated make_move
\* call lies from its start
MaxReach == 2

ElapsedTimes == 1..MaxElapsed

\* the plies of LinePromotion before its first jump: red to move, the Man
\* on (5,0) has to jump to (3,2), from where it could jump on to (1,4);
\* before, no piece that landed from a jump could have jumped on
LineDoubleJump == SubSeq(LinePromotion, 1, Len(LinePromotion) - 41)

\* the initial states: a new Game, and the Games the lines lead to; replays
\* is how often the last move of the line has been taken back and made again
Starts ==
    { [line |-> <<>>, replays |-> 0, budget |-> MaxOpeningOps],
      [line |-> LineDoubleJump, replays |-> 0, budget |-> MaxOpeningOps],
      [line |-> LineBlackPromotingJump, replays |-> 1, budget |-> MaxOps],
      [line |-> LineRedPromotingJump, replays |-> 0, budget |-> MaxOps],
      [line |-> LineRedBlocked, replays |-> 0, budget |-> MaxOps],
      [line |-> LineBlackBlocked, replays |-> 0, budget |-> MaxOps],
      [line |-> LinePromotion, replays |-> 0, budget |-> MaxOps],
      [line |-> LineKingCaptured, replays |-> 0, budget |-> MaxOps],
      [line |-> LineRepetition, replays |-> 0, budget |-> MaxOps] }

(***************************************************************************)
(* Initial states and actions.                                             *)
(***************************************************************************)
\* CheckersGUI.__init__ with the two player objects given
GuiInit(white, black) ==
    /\ white_player = white
    /\ black_player = black
    /\ ai_is_thinking = FALSE
    /\ ai_move_result = None
    /\ threads = <<>>
    /\ exception = None
    /\ request = [started |-> 0, stored |-> 0, taken |-> 0, made |-> 0,
                  pdn |-> ""]

Init ==
    \E start \in Starts :
        LET observed == replay_last(play(start.line), start.replays)
        IN  /\ Len(observed.game.move_history) = Len(start.line)
            /\ GameIs(observed.game)
            /\ last_call = observed.last_call
            /\ reached = observed.reached
            /\ budget = start.budget
            /\ GuiInit(None, None)

\* a validated move: the front-end calls make_move(start, end) with end
\* taken from get_legal_moves_for_piece(start)
MakeMove ==
    /\ budget > 0
    /\ \E start_coords \in Squares :
         \E end_coords
              \in Elems(get_legal_moves_for_piece(game, start_coords)) :
           \E elapsed_time \in ElapsedTimes :
             LET call == make_move(game, start_coords, end_coords,
                                   elapsed_time)
             IN  /\ Becomes(call.game)
                 /\ last_call' = MakeMoveCall(start_coords, end_coords,
                                              elapsed_time, call.ret)
                 /\ reached' = Count(reached, PositionOf(call.game))
    /\ budget' = budget - 1
    /\ UNCHANGED gui_vars

\* undo_last_move(); last_call keeps the Move popped and the call before
UndoLastMove ==
    /\ budget > 0
    /\ Becomes(undo_last_move(game))
    /\ last_call' = [op |-> "undo_last_move",
                     move |-> IF move_history = <<>> THEN None
                              ELSE last(move_history),
                     after |-> last_call.op,
                     position_history |-> position_history]
    /\ reached' = reached
    /\ budget' = budget - 1
    /\ UNCHANGED gui_vars

\* resign()
Resign ==
    /\ budget > 0
    /\ Becomes(resign(game))
    /\ last_call' = [op |-> "resign"]
    /\ reached' = reached
    /\ budget' = budget - 1
    /\ UNCHANGED gui_vars

\* offer_draw()
OfferDraw ==
    /\ budget > 0
    /\ Becomes(offer_draw(game))
    /\ last_call' = [op |-> "offer_draw"]
    /\ reached' = reached
    /\ budget' = budget - 1
    /\ UNCHANGED gui_vars

Next == MakeMove \/ UndoLastMove \/ Resign \/ OfferDraw

Spec == Init /\ [][Next]_vars

(***************************************************************************)
(* The engine called directly: one make_move call with arbitrary           *)
(* coordinates of the board in each initial state, whether or not          *)
(* get_legal_moves_for_piece allows the move.                              *)
(***************************************************************************)
\* the destinations tried from start_coords
RawEnds(start_coords) ==
    {rc \in Squares : /\ abs(rc[1] - start_coords[1]) <= MaxReach
                      /\ abs(rc[2] - start_coords[2]) <= MaxReach}

\* make_move(start, end) with any start and end; no call is explored after it
RawMakeMove ==
    /\ budget > 0
    /\ \E start_coords \in Squares :
         \E end_coords \in RawEnds(start_coords) :
           \E elapsed_time \in ElapsedTimes :
             LET call == make_move(game, start_coords, end_coords,
                                   elapsed_time)
             IN  /\ Becomes(call.game)
                 /\ last_call' = MakeMoveCall(start_coords, end_coords,
                                              elapsed_time, call.ret)
                 /\ reached' = IF call.ret
                               THEN Count(reached, PositionOf(call.game))
                               ELSE reached
    /\ budget' = 0
    /\ UNCHANGED gui_vars

NextRaw == RawMakeMove

SpecRaw == Init /\ [][NextRaw]_vars

(***************************************************************************)
(* gui.py, ai.py: a game with an advisory (AI) player.  The main loop      *)
(* (CheckersGUI.run) calls _handle_ai_turn_start, _process_ai_result and   *)
(* the handlers of the events; a worker thread runs _get_ai_move_threaded  *)
(* in three steps: it encodes the position, asks the service, and stores   *)
(* the result under ai_lock.  A call that changes nothing is a stuttering  *)
(* step.                                                                   *)
(***************************************************************************)
\* AIPlayer.__init__: the object has the attribute model when the client
\* could be initialized, and only the attribute client when it could not
AIPlayer(initialized) ==
    IF initialized THEN [model |-> "gemini-pro"] ELSE [client |-> None]

RECURSIVE chars(_)
\* the characters of the decimal numeral of i >= 0
chars(i) ==
    IF i < 10 THEN <<digits[i + 1]>>
    ELSE chars(i \div 10) \o <<digits[(i % 10) + 1]>>

\* a str object: its characters
Str(characters) == [str |-> characters]

\* the text 'a-b', as the match of r'\d+-\d+' in the response of the service
reply(a, b) == Str(chars(a) \o <<"-">> \o chars(b))

\* the moves of the side to move, as pairs of square numbers
LegalPairs(self) ==
    {<<(m[1][1] * 4) + (m[1][2] \div 2) + 1, (m[2][1] * 4) + (m[2][2] \div 2) + 1>> :
        m \in UNION {{<<rc, e>> : e \in Elems(get_legal_moves_for_piece(self, rc))} :
                        rc \in Squares}}

\* pairs of numbers the service is asked nothing about: a move of black's
\* first row, a red Man of the initial position sent two squares sideways,
\* numbers below 1 and above 32
SampleReplies ==
    {<<11, 15>>, <<22, 19>>, <<0, 3>>, <<0, 4>>, <<33, 1>>, <<1, 33>>}

\* the replies of the service that are explored: every legal move, every
\* legal move reversed, and the sample
Replies(self) ==
    LET legal == LegalPairs(self)
        pairs == legal \cup {<<p[2], p[1]>> : p \in legal} \cup SampleReplies
    IN  {reply(p[1], p[2]) : p \in pairs}

\* AIPlayer.get_best_move: what the call can yield, whatever the position
\* string: the AttributeError of "self.model" on an object without it, None
\* (no client response, no match, an API error), or the matched text
get_best_move(self, replies) ==
    IF "model" \notin DOMAIN self THEN {[raised |-> "AttributeError"]}
    ELSE {None} \cup replies

\* CheckersGUI._handle_ai_turn_start: the player object of the side to move
current_player_object(self, white, black) ==
    IF get_current_player(self).color = "red" THEN white ELSE black

\* is_ai_turn without the test of ai_is_thinking
is_ai_turn_ungated(self, white, black, thinking) ==
    /\ current_player_object(self, white, black) # None
    /\ self.game_state = "active"

\* CheckersGUI._handle_ai_turn_start: is_ai_turn
is_ai_turn(self, white, black, thinking) ==
    /\ current_player_object(self, white, black) # None
    /\ ~thinking
    /\ self.game_state = "active"

\* CheckersGUI.run: is_human_turn
is_human_turn(self, white, black) ==
    \/ get_current_player(self).color = "red" /\ white = None
    \/ get_current_player(self).color = "black" /\ black = None

\* what a call of _process_ai_result leaves
Processed(self, thinking, result, raised, outcome, call) ==
    [game |-> self, ai_is_thinking |-> thinking, ai_move_result |-> result,
     exception |-> raised, outcome |-> outcome, call |-> call]

\* CheckersGUI._process_ai_result without the test of the destination
_process_ai_result_unvalidated(self, thinking, result, elapsed_time) ==
    IF result = None
    THEN Processed(self, thinking, result, None, "no result", None)
    ELSE LET move_to_make == result
             parsed == _parse_ai_move(move_to_make.str)
             start_coords == parsed[1]
             end_coords == parsed[2]
         IN  IF start_coords # NoCoords /\ end_coords # NoCoords
             THEN IF IndexError(start_coords)
                  THEN Processed(self, thinking, None,
                                 [raised |-> "IndexError"], "raised", None)
                  ELSE LET call == make_move(self, start_coords,
                                             end_coords, elapsed_time)
                       IN  Processed(call.game, FALSE, None, None,
                               "applied",
                               MakeMoveCall(start_coords, end_coords,
                                            elapsed_time, call.ret))
             ELSE Processed(self, FALSE, None, None, "unparsed", None)

\* CheckersGUI._process_ai_result leaving the result where it found it
_process_ai_result_result_kept(self, thinking, result, elapsed_time) ==
    IF result = None
    THEN Processed(self, thinking, result, None, "no result", None)
    ELSE LET move_to_make == result
             parsed == _parse_ai_move(move_to_make.str)
             start_coords == parsed[1]
             end_coords == parsed[2]
         IN  IF start_coords # NoCoords /\ end_coords # NoCoords
             THEN IF IndexError(start_coords)
                  THEN Processed(self, thinking, result,
                                 [raised |-> "IndexError"], "raised", None)
                  ELSE IF end_coords \in Elems(
                              get_legal_moves_for_piece(self, start_coords))
                  THEN LET call == make_move(self, start_coords,
                                             end_coords, elapsed_time)
                       IN  Processed(call.game, FALSE, result, None,
                               "applied",
                               MakeMoveCall(start_coords, end_coords,
                                            elapsed_time, call.ret))
                  ELSE Processed(self, FALSE, result, None, "illegal", None)
             ELSE Processed(self, FALSE, result, None, "unparsed", None)

\* CheckersGUI._process_ai_result; get_legal_moves_for_piece raises
\* IndexError in get_piece_at when the start is off the board
_process_ai_result(self, thinking, result, elapsed_time) ==
    IF result = None
    THEN Processed(self, thinking, result, None, "no result", None)
    ELSE LET move_to_make == result
             parsed == _parse_ai_move(move_to_make.str)
             start_coords == parsed[1]
             end_coords == parsed[2]
         IN  IF start_coords # NoCoords /\ end_coords # NoCoords
             THEN IF IndexError(start_coords)
                  THEN Processed(self, thinking, None,
                                 [raised |-> "IndexError"], "raised", None)
                  ELSE IF end_coords \in Elems(
                              get_legal_moves_for_piece(self, start_coords))
                  THEN LET call == make_move(self, start_coords,
                                             end_coords, elapsed_time)
                       IN  Processed(call.game, FALSE, None, None,
                               "applied",
                               MakeMoveCall(start_coords, end_coords,
                                            elapsed_time, call.ret))
                  ELSE Processed(self, FALSE, None, None, "illegal", None)
             ELSE Processed(self, FALSE, None, None, "unparsed", None)

\* CheckersGUI._undo_move: undo_last_move once, and once more when exactly
\* one of the players is an AIPlayer
undo_button(self, white, black) ==
    LET is_h_vs_ai == \/ white = None /\ black # None
                      \/ white # None /\ black = None
        once == undo_last_move(self)
    IN  IF is_h_vs_ai THEN undo_last_move(once) ELSE once

\* 51 plies: a black King on (7,6), black to move without a jump, (0,5) and
\* (0,7) empty
LineBackRowKing ==
    LinePromotion \o << <<<<6, 5>>, <<7, 6>>>>, <<<<6, 7>>, <<5, 6>>>> >>

\* the initial states of a game with an advisory player
AIStarts ==
    { [line |-> <<>>, white |-> AIPlayer(TRUE), black |-> None,
       budget |-> MaxOpeningOps],
      [line |-> <<>>, white |-> None, black |-> AIPlayer(TRUE),
       budget |-> MaxOpeningOps],
      [line |-> <<>>, white |-> AIPlayer(FALSE), black |-> None,
       budget |-> MaxOpeningOps],
      [line |-> LineBackRowKing, white |-> None, black |-> AIPlayer(TRUE),
       budget |-> MaxOps],
      [line |-> LineBackRowKing, white |-> AIPlayer(TRUE),
       black |-> AIPlayer(TRUE), budget |-> MaxOps] }

InitAI ==
    \E start \in AIStarts :
        LET observed == play(start.line)
        IN  /\ Len(observed.game.move_history) = Len(start.line)
            /\ GameIs(observed.game)
            /\ last_call = observed.last_call
            /\ reached = observed.reached
            /\ budget = start.budget
            /\ GuiInit(start.white, start.black)

\* the main loop is running
Running == exception = None

\* _handle_ai_turn_start when it is the turn of an AIPlayer: the flag is set
\* and a worker thread started
AiTurnStart ==
    /\ Running
    /\ budget > 0
    /\ is_ai_turn(game, white_player, black_player, ai_is_thinking)
    /\ ai_is_thinking' = TRUE
    /\ threads' = Append(threads,
                     [pc |-> "to_pdn",
                      ai_player |-> current_player_object(game, white_player,
                                                          black_player)])
    /\ request' = [request EXCEPT !.started = @ + 1]
    /\ last_call' = [op |-> "_handle_ai_turn_start"]
    /\ budget' = budget - 1
    /\ UNCHANGED <<board, current_player_index, game_state, move_history,
                   red_captured, black_captured, red_turn_time,
                   black_turn_time, position_history, reached,
                   white_player, black_player, ai_move_result, exception>>

\* the Game and the main loop's own attributes are left as they are
WorkerFrame ==
    UNCHANGED <<board, current_player_index, game_state, move_history,
                red_captured, black_captured, red_turn_time,
                black_turn_time, position_history, last_call, reached,
                budget, white_player, black_player, ai_is_thinking,
                exception>>

\* _get_ai_move_threaded, first statement: the worker reads the Game
ThreadToPdn ==
    \E i \in DOMAIN threads :
        /\ threads[i].pc = "to_pdn"
        /\ threads' = [threads EXCEPT ![i] =
                          [pc |-> "get_best_move",
                           ai_player |-> threads[i].ai_player,
                           pdn |-> to_pdn(game)]]
        /\ request' = [request EXCEPT !.pdn = to_pdn(game)]
        /\ ai_move_result' = ai_move_result
        /\ WorkerFrame

\* _get_ai_move_threaded, second statement: the call of the service; an
\* exception ends the thread
ThreadGetBestMove ==
    \E i \in DOMAIN threads :
        /\ threads[i].pc = "get_best_move"
        /\ \E move \in get_best_move(threads[i].ai_player, Replies(game)) :
              threads' = [threads EXCEPT ![i] =
                             IF "raised" \in DOMAIN move
                             THEN [pc |-> "raised"]
                             ELSE [pc |-> "store", move |-> move]]
        /\ UNCHANGED <<request, ai_move_result>>
        /\ WorkerFrame

\* _get_ai_move_threaded, last statement: the result is stored under ai_lock
ThreadStore ==
    \E i \in DOMAIN threads :
        /\ threads[i].pc = "store"
        /\ ai_move_result' = threads[i].move
        /\ threads' = [threads EXCEPT ![i] = [pc |-> "done"]]
        /\ request' = [request EXCEPT
                          !.stored = IF threads[i].move # None
                                     THEN @ + 1 ELSE @]
        /\ WorkerFrame

\* _process_ai_result when a result is there
ProcessAiResult ==
    /\ Running
    /\ ai_move_result # None
    /\ \E elapsed_time \in ElapsedTimes :
         LET done == _process_ai_result(game, ai_is_thinking,
                                        ai_move_result, elapsed_time)
         IN  /\ Becomes(done.game)
             /\ ai_is_thinking' = done.ai_is_thinking
             /\ ai_move_result' = done.ai_move_result
             /\ exception' = done.exception
             /\ last_call' = [op |-> "_process_ai_result",
                              move_to_make |-> ai_move_result,
                              outcome |-> done.outcome,
                              call |-> done.call]
             /\ reached' = IF done.call # None /\ done.call.ret
                           THEN Count(reached, PositionOf(done.game))
                           ELSE reached
             /\ request' = [request EXCEPT
                               !.taken = @ + 1,
                               !.made = IF done.call # None THEN @ + 1
                                        ELSE @]
    /\ UNCHANGED <<budget, white_player, black_player, threads>>

\* an event reaches handle_input
InputHandled ==
    /\ Running
    /\ budget > 0
    /\ ~ai_is_thinking
    /\ is_human_turn(game, white_player, black_player)

\* the attributes of the advisory player are left as they are
InputFrame ==
    /\ budget' = budget - 1
    /\ UNCHANGED gui_vars

\* handle_square_click twice: a piece is selected and one of its legal moves
\* clicked
SquareClick ==
    /\ InputHandled
    /\ \E start_coords \in Squares :
         \E end_coords
              \in Elems(get_legal_moves_for_piece(game, start_coords)) :
           \E elapsed_time \in ElapsedTimes :
             LET call == make_move(game, start_coords, end_coords,
                                   elapsed_time)
             IN  /\ Becomes(call.game)
                 /\ last_call' = MakeMoveCall(start_coords, end_coords,
                                              elapsed_time, call.ret)
                 /\ reached' = Count(reached, PositionOf(call.game))
    /\ InputFrame

\* the Undo button or the key u
UndoButton ==
    /\ InputHandled
    /\ Becomes(undo_button(game, white_player, black_player))
    /\ last_call' = [op |-> "_undo_move"]
    /\ reached' = reached
    /\ InputFrame

\* the Resign button
ResignButton ==
    /\ InputHandled
    /\ Becomes(resign(game))
    /\ last_call' = [op |-> "resign"]
    /\ reached' = reached
    /\ InputFrame

\* the Offer Draw button
OfferDrawButton ==
    /\ InputHandled
    /\ Becomes(offer_draw(game))
    /\ last_call' = [op |-> "offer_draw"]
    /\ reached' = reached
    /\ InputFrame

\* the New Game button or the key r: _reset_game_state
NewGameButton ==
    /\ InputHandled
    /\ Becomes(NewGame)
    /\ last_call' = [op |-> "_reset_game_state"]
    /\ reached' = Constructed.reached
    /\ InputFrame

NextAI ==
    \/ AiTurnStart
    \/ ThreadToPdn
    \/ ThreadGetBestMove
    \/ ThreadStore
    \/ ProcessAiResult
    \/ SquareClick
    \/ UndoButton
    \/ ResignButton
    \/ OfferDrawButton
    \/ NewGameButton

SpecAI == InitAI /\ [][NextAI]_vars

(***************************************************************************)
(* Vocabulary of the properties, stated on the board without the engine's  *)
(* move generation.                                                        *)
(***************************************************************************)
\* the piece on square rc, the side (TRUE for red) that is to move
At(rc) == board[rc[1]][rc[2]]

RedToMove == current_player_index = 0

\* the squares holding a piece of the side to move
MoverSquares ==
    {rc \in Squares : At(rc) # None /\ At(rc).is_player1 = RedToMove}

\* the squares holding a piece of side red (TRUE) or black (FALSE)
SquaresOf(red) ==
    {rc \in Squares : At(rc) # None /\ At(rc).is_player1 = red}

\* the diagonal directions the rules give the piece: a Man goes forward
\* (red towards row 0, black towards row 7), a King anywhere
RuleDirections(piece) ==
    {d \in {-1, 1} \X {-1, 1} :
        \/ piece.name = "K"
        \/ piece.name = "M" /\ d[1] = (IF piece.is_player1 THEN -1 ELSE 1)}

OnBoard(rc) == rc[1] \in 0..7 /\ rc[2] \in 0..7

\* the squares the piece on rc can jump to: two steps along a direction of
\* the piece, over an enemy piece, onto an empty square of the board
JumpTargets(rc) ==
    {<<rc[1] + 2 * d[1], rc[2] + 2 * d[2]>> : d \in
        {d \in RuleDirections(At(rc)) :
            /\ OnBoard(<<rc[1] + 2 * d[1], rc[2] + 2 * d[2]>>)
            /\ At(<<rc[1] + d[1], rc[2] + d[2]>>) # None
            /\ At(<<rc[1] + d[1], rc[2] + d[2]>>).is_player1
                   # At(rc).is_player1
            /\ At(<<rc[1] + 2 * d[1], rc[2] + 2 * d[2]>>) = None}}

\* the squares the piece on rc can step to: one step along a direction of
\* the piece onto an empty square of the board
StepTargets(rc) ==
    {<<rc[1] + d[1], rc[2] + d[2]>> : d \in
        {d \in RuleDirections(At(rc)) :
            /\ OnBoard(<<rc[1] + d[1], rc[2] + d[2]>>)
            /\ At(<<rc[1] + d[1], rc[2] + d[2]>>) = None}}

\* some piece of the side to move has a jump
CaptureAvailable == \E rc \in MoverSquares : JumpTargets(rc) # {}

(***************************************************************************)
(* C1  Forced capture: in every reachable position where the side to move  *)
(* has a jump, get_legal_moves_for_piece returns the empty list for each   *)
(* of its pieces without a jump, and for each of its pieces with jumps     *)
(* exactly the jump destinations of that piece, each two rows away and     *)
(* listed once, never the destination of a simple move.                    *)
(***************************************************************************)
C1_ForcedCapture ==
    CaptureAvailable =>
        \A rc \in MoverSquares :
            LET legal == get_legal_moves_for_piece(game, rc)
            IN  /\ Elems(legal) = JumpTargets(rc)
                /\ Len(legal) = Cardinality(JumpTargets(rc))
                /\ \A i \in DOMAIN legal : abs(legal[i][1] - rc[1]) = 2
                /\ Elems(legal) \cap StepTargets(rc) = {}

\* a capture is mandatory, one piece of the side to move has no jump and
\* is given no move although it could step, and another has a jump and a
\* step and is given the jump only
C1_Witness ==
    /\ CaptureAvailable
    /\ \E rc \in MoverSquares :
          /\ JumpTargets(rc) = {} /\ StepTargets(rc) # {}
          /\ get_legal_moves_for_piece(game, rc) = <<>>
    /\ \E rc \in MoverSquares :
          /\ JumpTargets(rc) # {} /\ StepTargets(rc) # {}
          /\ Elems(get_legal_moves_for_piece(game, rc)) = JumpTargets(rc)

\* the square jumped over by a jump from a to b
Mid(a, b) == <<(a[1] + b[1]) \div 2, (a[2] + b[2]) \div 2>>

\* the piece on square rc after the step
AtNext(rc) == board'[rc[1]][rc[2]]

\* the step is a make_move call that returned success
MoveMade == last_call'.op = "make_move" /\ last_call'.ret

\* the state was produced by a make_move call that returned success
AfterMove == last_call.op = "make_move" /\ last_call.ret

\* the state was produced by an undo_last_move call that popped a Move
AfterUndo == last_call.op = "undo_last_move" /\ last_call.move # None

\* the attributes of the Game are left as they are
GameUnchanged ==
    UNCHANGED <<board, current_player_index, game_state, move_history,
                red_captured, black_captured, red_turn_time,
                black_turn_time, position_history>>

(***************************************************************************)
(* C2  Undo round-trip: in every reachable position, for every move that   *)
(* get_legal_moves_for_piece allows, make_move followed by undo_last_move  *)
(* yields a Game equal to the one before in the board (piece and owner on  *)
(* every square), the side to move, both cumulative turn timers, both      *)
(* captured lists and the move history.                                    *)
(***************************************************************************)
C2_UndoRoundTrip ==
    \A start_coords \in MoverSquares :
      \A end_coords
           \in Elems(get_legal_moves_for_piece(game, start_coords)) :
        \A elapsed_time \in ElapsedTimes :
          LET made == make_move(game, start_coords, end_coords,
                                elapsed_time)
              undone == undo_last_move(made.game)
          IN  /\ made.ret
              /\ undone.board = board
              /\ undone.current_player_index = current_player_index
              /\ undone.red_turn_time = red_turn_time
              /\ undone.black_turn_time = black_turn_time
              /\ undone.red_captured = red_captured
              /\ undone.black_captured = black_captured
              /\ undone.move_history = move_history

\* a promoting jump has just been undone: the Man is back on the start
\* square, the captured piece back on the midpoint, the end square empty
C2_Witness ==
    /\ AfterUndo
    /\ last_call.after = "make_move"
    /\ last_call.move.is_promotion
    /\ is_jump(last_call.move)
    /\ At(last_call.move.start_coords) = last_call.move.piece_moved
    /\ At(last_call.move.start_coords).name = "M"
    /\ At(Mid(last_call.move.start_coords, last_call.move.end_coords))
           = last_call.move.piece_captured
    /\ At(last_call.move.end_coords) = None

(***************************************************************************)
(* C3  Invalid move submission, as stated: a make_move(start, end) call    *)
(* with a piece of the side to move at start and end outside               *)
(* get_legal_moves_for_piece(start) returns failure and leaves the Game    *)
(* unchanged.                                                              *)
(***************************************************************************)
C3_IllegalEndRejected ==
    [][(/\ last_call'.op = "make_move"
        /\ last_call'.start \in MoverSquares
        /\ last_call'.end
             \notin Elems(get_legal_moves_for_piece(game, last_call'.start)))
       => (~last_call'.ret /\ GameUnchanged)]_vars

(***************************************************************************)
(* C3  Invalid move submission, as the engine has it: make_move returns    *)
(* failure and leaves board, turn, history, captured lists, timers,        *)
(* repetition counts and status unchanged exactly when start holds no      *)
(* piece or a piece of the side not to move; with a piece of the side to   *)
(* move at start it returns success, records the Move from start to end,   *)
(* empties start and passes the turn, whether or not end is in             *)
(* get_legal_moves_for_piece(start).                                       *)
(***************************************************************************)
C3_InvalidSubmission ==
    [][last_call'.op = "make_move"
       => IF last_call'.start \in MoverSquares
          THEN /\ last_call'.ret
               /\ Len(move_history') = Len(move_history) + 1
               /\ pop(move_history') = move_history
               /\ last(move_history').start_coords = last_call'.start
               /\ last(move_history').end_coords = last_call'.end
               /\ AtNext(last_call'.start) = None
               /\ current_player_index' = 1 - current_player_index
          ELSE ~last_call'.ret /\ GameUnchanged]_vars

\* a make_move call whose start holds a piece of the side not to move has
\* returned failure
C3_Witness ==
    /\ last_call.op = "make_move"
    /\ ~last_call.ret
    /\ budget = 0
    /\ At(last_call.start) # None
    /\ At(last_call.start).is_player1 # RedToMove

(***************************************************************************)
(* C4  Threefold repetition: when a make_move, in a sequence of make_move  *)
(* calls from a new Game, produces a board and side to move that has now   *)
(* been reached three times, the initial position counting once, the       *)
(* status it sets is draw by threefold repetition.                         *)
(***************************************************************************)
C4_Threefold ==
    (/\ AfterMove
     /\ sum_values(reached) = Len(move_history) + 1
     /\ get(reached, PositionOf(game)) >= 3)
    => game_state = "draw by threefold repetition"

\* a make_move has produced a position for the third time, no move of the
\* game having been undone
C4_Witness ==
    /\ AfterMove
    /\ sum_values(reached) = Len(move_history) + 1
    /\ get(reached, PositionOf(game)) = 3
    /\ game_state = "draw by threefold repetition"

(***************************************************************************)
(* C5  Once the status is draw by threefold repetition, no make_move,      *)
(* undo_last_move, resign or offer_draw changes it.                        *)
(***************************************************************************)
C5_DrawIsFinal ==
    [][game_state = "draw by threefold repetition"
       => game_state' = "draw by threefold repetition"]_vars

(***************************************************************************)
(* C6  Terminal detection by elimination: in every state produced by a     *)
(* make_move or a non-empty undo_last_move in which one side has no piece  *)
(* on the board, the status is a win for the other side.                   *)
(***************************************************************************)
C6_Elimination ==
    (AfterMove \/ AfterUndo) =>
        /\ SquaresOf(TRUE) = {} =>
               game_state \in {"Black wins - All opponent pieces captured",
                               "Black wins - no legal moves"}
        /\ SquaresOf(FALSE) = {} =>
               game_state \in {"Red wins - All opponent pieces captured",
                               "Red wins - no legal moves"}

\* the side to move has a legal move for some piece
MoverCanMove ==
    \E rc \in MoverSquares : get_legal_moves_for_piece(game, rc) # <<>>

(***************************************************************************)
(* C7  Status consistency: after every successful make_move and every      *)
(* non-empty undo_last_move, if the repetition count of the current        *)
(* position is below 3 and both sides have pieces, the status is 'active'  *)
(* exactly when the side to move has a legal move for some piece, and      *)
(* '<other side> wins - no legal moves' exactly when it has none.          *)
(***************************************************************************)
C7_StatusConsistent ==
    (/\ AfterMove \/ AfterUndo
     /\ get(position_history, _get_position_hash(game)) < 3
     /\ SquaresOf(TRUE) # {}
     /\ SquaresOf(FALSE) # {})
    => /\ game_state = "active" <=> MoverCanMove
       /\ game_state = (IF RedToMove THEN "Black" ELSE "Red")
                           \o " wins - no legal moves"
              <=> ~MoverCanMove

\* a make_move has left the side to move with pieces and without a legal
\* move, and the other side has won
C7_Witness ==
    /\ AfterMove
    /\ get(position_history, _get_position_hash(game)) < 3
    /\ MoverSquares # {}
    /\ ~MoverCanMove
    /\ \E rc \in MoverSquares : StepTargets(rc) = {} /\ JumpTargets(rc) = {}
    /\ game_state = (IF RedToMove THEN "Black" ELSE "Red")
                        \o " wins - no legal moves"

\* a Man of the owner arrives on the owner's farthest row
ReachesBackRow(piece, end_coords) ==
    /\ piece.name = "M"
    /\ end_coords[1] = (IF piece.is_player1 THEN 0 ELSE 7)

(***************************************************************************)
(* C8  Promotion: when make_move moves a red Man to row 0 or a black Man   *)
(* to row 7, the destination holds a King of the same owner after the call *)
(* and the recorded Move has is_promotion set; a King reaching row 0 or 7  *)
(* records no promotion; when the promoting move is a jump, the midpoint   *)
(* piece is removed and recorded as captured as for any other jump.        *)
(***************************************************************************)
C8_Promotion ==
    [][MoveMade =>
        LET start_coords == last_call'.start
            end_coords == last_call'.end
            piece == At(start_coords)
            mid == Mid(start_coords, end_coords)
            move == last(move_history')
        IN  /\ ReachesBackRow(piece, end_coords) =>
                  /\ AtNext(end_coords).name = "K"
                  /\ AtNext(end_coords).is_player1 = piece.is_player1
                  /\ move.is_promotion
                  /\ move.piece_moved = piece
            /\ (piece.name = "K" /\ end_coords[1] \in {0, 7}) =>
                  /\ ~move.is_promotion
                  /\ AtNext(end_coords) = piece
            /\ (/\ ReachesBackRow(piece, end_coords)
                /\ abs(start_coords[1] - end_coords[1]) = 2) =>
                  /\ At(mid) # None
                  /\ AtNext(mid) = None
                  /\ move.piece_captured = At(mid)
                  /\ move.captured_coords = mid
                  /\ IF piece.is_player1
                     THEN /\ black_captured' = Append(black_captured, At(mid))
                          /\ red_captured' = red_captured
                     ELSE /\ red_captured' = Append(red_captured, At(mid))
                          /\ black_captured' = black_captured]_vars

\* a Man has just jumped onto its farthest row: a King of its owner stands
\* there, the Move records the promotion and the capture, the midpoint is
\* empty
C8_Witness ==
    /\ AfterMove
    /\ move_history # <<>>
    /\ LET move == last(move_history)
       IN  /\ move.start_coords = last_call.start
           /\ move.is_promotion
           /\ is_jump(move)
           /\ move.piece_moved.name = "M"
           /\ At(move.end_coords).name = "K"
           /\ At(move.end_coords).is_player1 = move.piece_moved.is_player1
           /\ move.piece_captured # None
           /\ At(Mid(move.start_coords, move.end_coords)) = None

(***************************************************************************)
(* C9  Capture removal and frame: after a legal jump from start over the   *)
(* midpoint to end, the midpoint is empty, the piece that stood there has  *)
(* been appended to black_captured when red jumped and to red_captured     *)
(* when black jumped, the other captured list is unchanged, and every      *)
(* square other than start, midpoint and end holds the piece it held.      *)
(***************************************************************************)
C9_CaptureFrame ==
    [][(MoveMade /\ abs(last_call'.start[1] - last_call'.end[1]) = 2) =>
        LET start_coords == last_call'.start
            end_coords == last_call'.end
            mid == Mid(start_coords, end_coords)
        IN  /\ At(mid) # None
            /\ AtNext(mid) = None
            /\ IF At(start_coords).is_player1
               THEN /\ black_captured' = Append(black_captured, At(mid))
                    /\ red_captured' = red_captured
               ELSE /\ red_captured' = Append(red_captured, At(mid))
                    /\ black_captured' = black_captured
            /\ \A rc \in Squares \ {start_coords, mid, end_coords} :
                   AtNext(rc) = At(rc)]_vars

\* red has just jumped without promoting: the midpoint is empty and the
\* captured black piece is the last of black_captured
C9_Witness ==
    /\ AfterMove
    /\ move_history # <<>>
    /\ LET move == last(move_history)
       IN  /\ move.start_coords = last_call.start
           /\ is_jump(move)
           /\ ~move.is_promotion
           /\ move.piece_moved.is_player1
           /\ At(Mid(move.start_coords, move.end_coords)) = None
           /\ black_captured # <<>>
           /\ last(black_captured) = move.piece_captured
           /\ ~move.piece_captured.is_player1

(***************************************************************************)
(* C10  In every state reached by make_move and undo_last_move calls from  *)
(* a new Game, the occurrence counts of position_history sum to the length *)
(* of the move history plus 1.                                             *)
(***************************************************************************)
C10_OccurrencesMatchHistory ==
    sum_values(position_history) = Len(move_history) + 1

\* the numbers of the squares of the position string
SquareNumbers == 1..32

\* the playable (dark) squares
Playable == {rc \in Squares : (rc[1] + rc[2]) % 2 = 1}

\* the number to_pdn gives square rc
SquareNum(rc) == (rc[1] * 4) + (rc[2] \div 2) + 1

\* what a reader of the position string decodes from the list of one side:
\* the piece_str "K" + str(n) is a King on square n, str(n) a Man on square n
Decoded(piece_strs) ==
    {<<_square_to_coords(n), k>> : <<n, k>> \in
        {nk \in SquareNumbers \X {"K", "M"} :
            \E i \in DOMAIN piece_strs :
                piece_strs[i] = (IF nk[2] = "K" THEN "K" ELSE "") \o str(nk[1])}}

\* the position string written from the board by a reader of the numbering:
\* for every number in order, the piece on the square _square_to_coords names
Encoded(red) ==
    LET held == SelectSeq([n \in SquareNumbers |-> n],
                    LAMBDA n : /\ At(_square_to_coords(n)) # None
                               /\ At(_square_to_coords(n)).is_player1 = red)
    IN  join_with(",",
            [i \in DOMAIN held |->
                (IF At(_square_to_coords(held[i])).name = "K" THEN "K" ELSE "")
                    \o str(held[i])])

ResultTaken == ai_move_result # None /\ ai_move_result' = None

\* the state was produced by _process_ai_result taking the reply 'a-b'
AfterReply(a, b) ==
    /\ last_call.op = "_process_ai_result"
    /\ last_call.move_to_make = reply(a, b)

(***************************************************************************)
(* C11  As claimed: on the initial position of a new Game the reply        *)
(* "11-15" is accepted and applied by _process_ai_result.                  *)
(***************************************************************************)
C11_ElevenFifteenApplied ==
    [][(ResultTaken /\ game = NewGame /\ ai_move_result = reply(11, 15))
          => last_call'.outcome = "applied"]_vars

(***************************************************************************)
(* C11  As the code has it: "11-15" is parsed into the start (2,5) and the *)
(* end (3,4); on the initial position of a new Game (2,5) holds a black    *)
(* Man while red is to move, so get_legal_moves_for_piece((2,5)) is empty  *)
(* and _process_ai_result rejects the reply: the Game is unchanged and the *)
(* flag cleared.  The reply "22-18", start (5,2) and end (4,3), is         *)
(* accepted on that position and applied.                                  *)
(***************************************************************************)
C11_ElevenFifteenRejected ==
    [][(ResultTaken /\ game = NewGame) =>
          /\ ai_move_result = reply(11, 15) =>
                /\ _parse_ai_move(ai_move_result.str) = <<<<2, 5>>, <<3, 4>>>>
                /\ At(<<2, 5>>) = Man(FALSE)
                /\ RedToMove
                /\ get_legal_moves_for_piece(game, <<2, 5>>) = <<>>
                /\ last_call'.outcome = "illegal"
                /\ GameUnchanged
                /\ ~ai_is_thinking'
          /\ ai_move_result = reply(22, 18) =>
                /\ last_call'.outcome = "applied"
                /\ last_call'.call.start = <<5, 2>>
                /\ last_call'.call.end = <<4, 3>>
                /\ last_call'.call.ret
                /\ AtNext(<<5, 2>>) = None
                /\ AtNext(<<4, 3>>) = Man(TRUE)]_vars

\* the reply "11-15" was taken on the initial position and rejected
C11_Witness ==
    /\ AfterReply(11, 15)
    /\ last_call.outcome = "illegal"
    /\ game = NewGame
    /\ ~ai_is_thinking

\* a worker thread has steps left
InFlight(thread) == thread.pc \in {"to_pdn", "get_best_move", "store"}

(***************************************************************************)
(* C13  Advisory failure recovery, as claimed: whichever way a started     *)
(* request fails, the Game is left unchanged and the in-flight flag        *)
(* ai_is_thinking is cleared by the main loop in the end.  The flag is     *)
(* cleared by _process_ai_result alone, and only when it finds a result,   *)
(* which a worker alone stores; so in every state where the flag is set a  *)
(* worker still has steps left, or a result is stored and the main loop    *)
(* running, and a step that finds the request failed leaves the Game as it *)
(* is.                                                                     *)
(***************************************************************************)
C13_FlagCleared ==
    /\ ai_is_thinking =>
          \/ \E i \in DOMAIN threads : InFlight(threads[i])
          \/ ai_move_result # None /\ Running
    /\ (last_call.op = "_process_ai_result" /\ last_call.outcome # "applied")
          => last_call.call = None

\* the stored result is a reply 'a-b' with a and b square numbers
ValidReply ==
    /\ ai_move_result # None
    /\ \E a, b \in SquareNumbers : ai_move_result = reply(a, b)

\* the destination the stored reply names is none that
\* get_legal_moves_for_piece returns for the start it names
DestinationIllegal ==
    LET parsed == _parse_ai_move(ai_move_result.str)
    IN  parsed[2] \notin Elems(get_legal_moves_for_piece(game, parsed[1]))

(***************************************************************************)
(* C14  Advisory rejection: when _process_ai_result takes a reply 'a-b'    *)
(* with a and b in 1..32 whose decoded destination is not in               *)
(* get_legal_moves_for_piece of the decoded start in the current position, *)
(* make_move is not called, and board, turn, history, captured lists,      *)
(* timers, repetition counts and status are all unchanged.                 *)
(***************************************************************************)
C14_IllegalReplyRejected ==
    [][(ResultTaken /\ ValidReply /\ DestinationIllegal) =>
          /\ last_call'.outcome = "illegal"
          /\ last_call'.call = None
          /\ request'.made = request.made
          /\ GameUnchanged
          /\ reached' = reached]_vars

\* a reply naming a piece of the side to move and a square it cannot go to
\* was taken and rejected
C14_Witness ==
    /\ last_call.op = "_process_ai_result"
    /\ last_call.outcome = "illegal"
    /\ \E a, b \in SquareNumbers :
          /\ last_call.move_to_make = reply(a, b)
          /\ At(_square_to_coords(a)) # None
          /\ At(_square_to_coords(a)).is_player1 = RedToMove
    /\ request.made = 0

(***************************************************************************)
(* C15  Exactly-once application: under every interleaving of the worker   *)
(* thread and the main loop, each non-empty result the worker stores in    *)
(* ai_move_result is taken by the main loop exactly once: a stored result  *)
(* stays in ai_move_result until it is taken (never lost), no result is    *)
(* taken that was not stored since the last taking (never taken twice),    *)
(* every taking leads to at most one make_move call, and so the make_move  *)
(* calls are no more than the requests started.                            *)
(***************************************************************************)
C15_ExactlyOnce ==
    /\ request.taken <= request.stored
    /\ request.stored <= request.taken + 1
    /\ (ai_move_result # None) <=> (request.stored = request.taken + 1)
    /\ request.made <= request.taken
    /\ request.stored <= request.started
    /\ Cardinality({i \in DOMAIN threads : threads[i].pc = "store"})
          + request.stored <= request.started

\* a second request was answered and its result taken and applied, as the
\* first was
C15_Witness ==
    /\ request.started = 2
    /\ request.stored = 2
    /\ request.taken = 2
    /\ request.made = 2
    /\ ai_move_result = None

(***************************************************************************)
(* C16  In-flight gating: while ai_is_thinking is true no second advisory  *)
(* worker is started (at most one worker has steps left, and only while    *)
(* the flag is set), and no human input (square click, undo, resign, draw  *)
(* offer, new game) reaches the Game: a step taken while the flag is set   *)
(* changes the Game only if it is _process_ai_result taking the result;    *)
(* and the position the reply is validated against is the position that    *)
(* was encoded for the request.                                            *)
(***************************************************************************)
C16_InFlightGating ==
    [][/\ ai_is_thinking =>
             /\ request'.started = request.started
             /\ (~GameUnchanged \/ reached' # reached) =>
                    /\ ResultTaken
                    /\ last_call'.op = "_process_ai_result"
       /\ Cardinality({i \in DOMAIN threads' : InFlight(threads'[i])})
             <= (IF ai_is_thinking' THEN 1 ELSE 0)
       /\ ResultTaken => request.pdn = to_pdn(game)]_vars

\* the reply of a request was applied in a game of a human and an advisory
\* player, and the human has inputs left
C16_Witness ==
    /\ last_call.op = "_process_ai_result"
    /\ last_call.outcome = "applied"
    /\ request.pdn # to_pdn(game)
    /\ white_player = None
    /\ ~ai_is_thinking
    /\ budget > 0

\* the stored result is a reply 'a-b' in which a or b is no square number
OutOfRangeReply ==
    /\ ai_move_result # None
    /\ \E p \in SampleReplies :
          /\ ai_move_result = reply(p[1], p[2])
          /\ p[1] \notin SquareNumbers \/ p[2] \notin SquareNumbers

(***************************************************************************)
(* C17  Out-of-range advisory reply, as claimed: a reply '<start>-<end>'   *)
(* in which start or end is not a square number in 1..32 is handled as a   *)
(* parse failure: no exception escapes _process_ai_result, no move is      *)
(* applied, the Game is unchanged and the in-flight flag is cleared.       *)
(***************************************************************************)
C17_OutOfRangeUnparsed ==
    [][(ResultTaken /\ OutOfRangeReply) =>
          /\ last_call'.outcome = "unparsed"
          /\ exception' = None
          /\ last_call'.call = None
          /\ GameUnchanged
          /\ ~ai_is_thinking']_vars

\* the step is a call of resign
Resigned == last_call'.op = "resign" /\ budget' = budget - 1

(***************************************************************************)
(* C18  resign, called in any reachable state whatever the board or the    *)
(* current status, sets the status to a resignation win for the opponent   *)
(* of the side to move (Black wins when red is to move, Red wins when      *)
(* black is to move) and leaves board, side to move, history, captured     *)
(* lists, timers and repetition counts unchanged.                          *)
(***************************************************************************)
C18_Resign ==
    [][Resigned =>
          /\ RedToMove => game_state' = "resignation - Black wins"
          /\ ~RedToMove => game_state' = "resignation - Red wins"
          /\ UNCHANGED <<board, current_player_index, move_history,
                         red_captured, black_captured, red_turn_time,
                         black_turn_time, position_history>>]_vars

\* red, to move without a legal move in a game that is over, has resigned
C18_Witness ==
    /\ last_call.op = "resign"
    /\ RedToMove
    /\ ~MoverCanMove
    /\ game_state = "resignation - Black wins"

\* the pieces on the board
Pieces == Cardinality({rc \in Squares : At(rc) # None})

\* the pieces on the board after the step
PiecesNext == Cardinality({rc \in Squares : AtNext(rc) # None})

(***************************************************************************)
(* C19  Single-step jumps: every successful make_move flips the side to    *)
(* move exactly once, records one Move and captures at most one piece      *)
(* (one when it is a jump), including when the piece that just landed has  *)
(* a further jump available from its destination: the continuation is not  *)
(* required, the opponent is to move next.                                 *)
(***************************************************************************)
C19_SingleStepJumps ==
    [][MoveMade =>
          /\ current_player_index' = 1 - current_player_index
          /\ Len(move_history') = Len(move_history) + 1
          /\ Pieces - PiecesNext
                = (IF abs(last_call'.start[1] - last_call'.end[1]) = 2
                   THEN 1 ELSE 0)
          /\ Len(red_captured') + Len(black_captured')
                = Len(red_captured) + Len(black_captured)
                     + (Pieces - PiecesNext)
          /\ AtNext(last_call'.end) # None
          /\ AtNext(last_call'.end).is_player1 = RedToMove
          /\ AtNext(last_call'.end).is_player1
                # (current_player_index' = 0)]_vars

\* a piece has just jumped and has a further jump from where it landed; the
\* opponent is to move
C19_Witness ==
    /\ AfterMove
    /\ Len(move_history) = Len(LineDoubleJump) + 1
    /\ is_jump(last(move_history))
    /\ At(last_call.end) # None
    /\ JumpTargets(last_call.end) # {}
    /\ At(last_call.end).is_player1 # RedToMove
    /\ game_state = "active"

\* position_history records the number of times construction or a
\* successful make_move has produced a position: for the current position,
\* and, as a call changes the count of no other, for every position when
\* the positions recorded and the sum of the counts agree as well
OccurrencesRecorded ==
    /\ get(position_history, _get_position_hash(game))
          = get(reached, PositionOf(game))
    /\ Cardinality(DOMAIN position_history) = Cardinality(DOMAIN reached)
    /\ sum_values(position_history) = sum_values(reached)

(***************************************************************************)
(* C20  undo_last_move leaves the position-occurrence mapping unchanged,   *)
(* so in every reachable state the count recorded for a position equals    *)
(* the number of successful make_move calls that ever produced it (plus    *)
(* one for the initial position), undone or not; and a make_move that      *)
(* produces a position for the third time, whatever was undone in between, *)
(* sets the status to draw by threefold repetition.                        *)
(***************************************************************************)
C20_UndoKeepsOccurrences ==
    /\ last_call.op = "undo_last_move"
          => position_history = last_call.position_history
    /\ OccurrencesRecorded
    /\ (AfterMove /\ get(position_history, _get_position_hash(game)) >= 3)
          => game_state = "draw by threefold repetition"

\* the same move has been made three times, taken back after the first and
\* after the second: the position it produces, once in the game, is counted
\* three times and the game is a draw
C20_Witness ==
    /\ AfterMove
    /\ get(reached, PositionOf(game)) = 3
    /\ position_history[_get_position_hash(game)] = 3
    /\ sum_values(position_history) = Len(move_history) + 3
    /\ game_state = "draw by threefold repetition"

\* destination e is sound for the piece on rc: an empty square of the
\* board, one diagonal step away, or two in one direction with an enemy
\* piece on the midpoint; for a Man the row changes in its owner's forward
\* direction only
SoundDestination(rc, e) ==
    LET dr == e[1] - rc[1]
        dc == e[2] - rc[2]
    IN  /\ OnBoard(e)
        /\ At(e) = None
        /\ abs(dr) = abs(dc)
        /\ abs(dr) \in {1, 2}
        /\ abs(dr) = 2 =>
              /\ At(Mid(rc, e)) # None
              /\ At(Mid(rc, e)).is_player1 # At(rc).is_player1
        /\ At(rc).name = "M" =>
              IF At(rc).is_player1 THEN dr < 0 ELSE dr > 0
        /\ At(rc).name \in {"M", "K"}

(***************************************************************************)
(* C21  Move-generation soundness: every destination that                  *)
(* get_legal_moves_for_piece returns for a piece at (r,c) is an in-bounds  *)
(* empty square reached by one diagonal step, or by two diagonal steps in  *)
(* the same direction with an enemy piece on the midpoint; for a Man the   *)
(* row changes only in its owner's forward direction (decreasing for red,  *)
(* increasing for black), for a King in any of the four diagonal           *)
(* directions; an empty square is given no destination.  The query is a    *)
(* function of the Game: it changes no part of its state.                  *)
(***************************************************************************)
C21_GenerationSound ==
    \A rc \in Squares :
        LET legal == get_legal_moves_for_piece(game, rc)
        IN  /\ At(rc) = None => legal = <<>>
            /\ \A e \in Elems(legal) : SoundDestination(rc, e)

\* no capture is on: a King of the side to move is given a destination on
\* either side of its row, and a Man is given one
C21_Witness ==
    /\ ~CaptureAvailable
    /\ \E rc \in MoverSquares :
          /\ At(rc).name = "K"
          /\ \E e \in Elems(get_legal_moves_for_piece(game, rc)) :
                e[1] < rc[1]
          /\ \E e \in Elems(get_legal_moves_for_piece(game, rc)) :
                e[1] > rc[1]
    /\ \E rc \in MoverSquares :
          /\ At(rc).name = "M"
          /\ get_legal_moves_for_piece(game, rc) # <<>>

(***************************************************************************)
(* C22  In every state reachable from a new Game by legal moves            *)
(* (destinations taken from get_legal_moves_for_piece) and undos, every    *)
(* piece on the board stands on a playable square, one where row + column  *)
(* is odd.                                                                 *)
(***************************************************************************)
C22_PlayableSquares ==
    \A rc \in Squares : At(rc) # None => rc \in Playable

\* a jump has been taken back: the piece that jumped is on its start again
\* and the captured piece on the midpoint, with a King on the board
C22_Witness ==
    /\ AfterUndo
    /\ is_jump(last_call.move)
    /\ At(last_call.move.start_coords) = last_call.move.piece_moved
    /\ At(Mid(last_call.move.start_coords, last_call.move.end_coords))
          = last_call.move.piece_captured
    /\ At(last_call.move.end_coords) = None
    /\ \E rc \in Squares : At(rc) # None /\ At(rc).name = "K"

\* the pieces put on the board for each side by _place_pieces
PiecesPlaced(red) ==
    Cardinality({i \in DOMAIN _iterate_squares :
        LET piece == get_piece_at(NewGame, _iterate_squares[i])
        IN  piece # None /\ piece.is_player1 = red})

(***************************************************************************)
(* C23  Piece conservation: in every state reachable by legal moves and    *)
(* undos, for each colour the number of that colour's pieces on the board  *)
(* plus the length of that colour's captured list (red_captured for red    *)
(* pieces, black_captured for black pieces) is 12, and each captured list  *)
(* contains only pieces of its own colour.                                 *)
(***************************************************************************)
C23_Conservation ==
    /\ PiecesPlaced(TRUE) = 12
    /\ PiecesPlaced(FALSE) = 12
    /\ Cardinality(SquaresOf(TRUE)) + Len(red_captured) = 12
    /\ Cardinality(SquaresOf(FALSE)) + Len(black_captured) = 12
    /\ \A i \in DOMAIN red_captured : red_captured[i].is_player1
    /\ \A i \in DOMAIN black_captured : ~black_captured[i].is_player1

\* a capture has been taken back while pieces of both colours stay captured
C23_Witness ==
    /\ AfterUndo
    /\ is_jump(last_call.move)
    /\ last_call.move.piece_captured # None
    /\ At(Mid(last_call.move.start_coords, last_call.move.end_coords))
          = last_call.move.piece_captured
    /\ red_captured # <<>>
    /\ black_captured # <<>>
    /\ Cardinality(SquaresOf(TRUE)) + Cardinality(SquaresOf(FALSE)) < 24

\* the statuses of the branch of _update_game_status taken when the side
\* not to move has no piece
AllCapturedStatuses ==
    { "Red wins - All opponent pieces captured",
      "Black wins - All opponent pieces captured" }

C25_NoManOnFarRow ==
    \A rc \in Squares :
        At(rc) # None /\ isinstance_Man(At(rc))
            => rc[1] # (IF At(rc).is_player1 THEN 0 ELSE 7)

\* a promoting move has been taken back: the Man is on its start again, one
\* row from the far row, and the square of the promotion is empty
C25_Witness ==
    /\ AfterUndo
    /\ last_call.move.is_promotion
    /\ At(last_call.move.start_coords)
          = Man(last_call.move.piece_moved.is_player1)
    /\ At(last_call.move.end_coords) = None
    /\ last_call.move.end_coords[1]
          = (IF last_call.move.piece_moved.is_player1 THEN 0 ELSE 7)
    /\ \E rc \in Squares : At(rc) # None /\ At(rc).name = "K"

(***************************************************************************)
(* C26  Turn parity: in every state reachable by any sequence of           *)
(* make_move, undo_last_move, resign and offer_draw, red is to move        *)
(* exactly when the move history has even length, and when the history is  *)
(* not empty its last Move was made by a piece of the side that is not to  *)
(* move.                                                                   *)
(***************************************************************************)
C26_TurnParity ==
    /\ RedToMove <=> Len(move_history) % 2 = 0
    /\ move_history # <<>>
          => last(move_history).piece_moved.is_player1 # RedToMove

\* a move has been taken back after a resignation or a draw by agreement,
\* and the Move now last in the history was made by red
C26_Witness ==
    /\ AfterUndo
    /\ last_call.after \in {"resign", "offer_draw"}
    /\ move_history # <<>>
    /\ Len(move_history) % 2 = 1
    /\ last(move_history).piece_moved.is_player1
    /\ ~last_call.move.piece_moved.is_player1
    /\ ~RedToMove

====
